---- MODULE Spec2Model ----
(***************************************************************************)
(* Model of AUNTY/src/openai_service.py: the chunked extraction path of    *)
(* OpenAIService (dispatch of per-chunk oracle calls on a thread pool,     *)
(* reconciliation of the partial documents, room deduplication).           *)
(*                                                                         *)
(* JSON values are a tagged union, so that the duck-typed tests of the     *)
(* code (isinstance, truthiness, "is None") are computed, not assumed:     *)
(*   Null, Str(chars), Num(int), List(sequence), Dict(map)                 *)
(* Python strings are sequences of one-character strings; dict keys that   *)
(* are literals in the code are TLA+ strings.                              *)
(***************************************************************************)
EXTENDS Integers, Sequences, FiniteSets, TLC

VARIABLES
    total_chunks,          \* len(text_chunks)
    rules,                 \* the rule list handed to the run
    submitted,             \* number of executor.submit calls made so far
    fstate,                \* per chunk: state of its future / worker
    fexc,                  \* per chunk: the future holds an exception
    yielded,               \* futures already yielded by as_completed
    chunk_results,         \* the result array of _process_with_chunking
    mainpc,                \* position of the main thread
    merge_i,               \* index of the merge loop (1-based)
    master_json,           \* the document being reconciled
    total_flags,           \* summed per-chunk critical_flags
    total_rules_checked,   \* summed per-chunk total_rules_checked
    rooms,                 \* argument of _merge_and_deduplicate_rooms
    room_i,                \* index of the room loop (1-based)
    unique_rooms,          \* insertion-ordered dict: sequence of [key, room]
    result,                \* value returned by _merge_and_deduplicate_rooms
    rpc,                   \* position inside _merge_and_deduplicate_rooms
    full_text,             \* argument of _get_text_chunks
    text_chunk_size,       \* its chunk_size argument
    text_overlap,          \* its overlap argument
    start,                 \* the running offset of _get_text_chunks
    chunks,                \* the list it builds
    tpc,                   \* position inside _get_text_chunks
    response_content,      \* the text _call_openai returned for one chunk
    is_truncated,          \* the truncation indicator it returned with it
    chunk_number,          \* the chunk that text belongs to
    fix_calls,             \* is_truncated of each _try_fix_malformed_json call
    parsed,                \* value returned by _parse_json_response
    structured_data,       \* value returned by _post_process_response
    ppc                    \* position inside _parse_json_response and after

vars == <<total_chunks, rules, submitted, fstate, fexc,
          yielded, chunk_results, mainpc, merge_i, master_json,
          total_flags, total_rules_checked, rooms, room_i, unique_rooms,
          result, rpc, full_text, text_chunk_size, text_overlap, start,
          chunks, tpc, response_content, is_truncated, chunk_number,
          fix_calls, parsed, structured_data, ppc>>

dispatchVars == <<submitted, fstate, fexc, yielded,
                  chunk_results>>
mergeVars == <<merge_i, master_json, total_flags, total_rules_checked>>
roomVars == <<rooms, room_i, unique_rooms, result, rpc>>
textVars == <<full_text, text_chunk_size, text_overlap, start, chunks, tpc>>
parseVars == <<response_content, is_truncated, chunk_number, fix_calls,
               parsed, structured_data, ppc>>

-----------------------------------------------------------------------------
(* Bounds *)

MaxChunks == 6
MaxRooms == 2

-----------------------------------------------------------------------------
(* JSON values *)

Null == [null |-> TRUE]
Str(cs) == [s |-> cs]
Num(k) == [n |-> k]
List(q) == [l |-> q]
Dict(f) == [m |-> f]
EmptyMap == [k \in {} |-> Null]
EmptyDict == Dict(EmptyMap)
EmptyList == List(<<>>)
Bool(b) == [b |-> b]
\* a float literal: sign, whole part, fraction digits without trailing zeros
Float(neg, whole, frac) == [f |-> <<neg, whole, frac>>]

IsNull(v) == DOMAIN v = {"null"}
IsStr(v) == DOMAIN v = {"s"}
IsNum(v) == DOMAIN v = {"n"}
IsList(v) == DOMAIN v = {"l"}
IsDict(v) == DOMAIN v = {"m"}
IsBool(v) == DOMAIN v = {"b"}
IsFloat(v) == DOMAIN v = {"f"}

\* bool(v)
Truthy(v) ==
    CASE IsNull(v) -> FALSE
      [] IsStr(v) -> v.s # <<>>
      [] IsNum(v) -> v.n # 0
      [] IsList(v) -> v.l # <<>>
      [] IsDict(v) -> DOMAIN v.m # {}
      [] IsBool(v) -> v.b
      [] IsFloat(v) -> v.f[2] # 0 \/ v.f[3] # <<>>

\* k in d
Has(d, k) == k \in DOMAIN d.m

\* d.get(k, default)
Get(d, k, default) == IF Has(d, k) THEN d.m[k] ELSE default

\* d.get(k)
GetN(d, k) == Get(d, k, Null)

\* d[k] = v
Put(d, k, v) == Dict([x \in DOMAIN d.m \cup {k} |-> IF x = k THEN v ELSE d.m[x]])

\* Bind([x \in {v} |-> e]) is e with x bound to the value of v, as a local
\* variable assigned once
Bind(f) == f[CHOOSE x \in DOMAIN f : TRUE]

\* d.setdefault(k, v) as the dict it leaves behind
SetDefault(d, k, v) == IF Has(d, k) THEN d ELSE Put(d, k, v)

-----------------------------------------------------------------------------
(* Python strings *)

UpperCs == <<"A","B","C","D","E","F","G","H","I","J","K","L","M",
             "N","O","P","Q","R","S","T","U","V","W","X","Y","Z">>
LowerCs == <<"a","b","c","d","e","f","g","h","i","j","k","l","m",
             "n","o","p","q","r","s","t","u","v","w","x","y","z">>
Whitespace == {" ", "\t", "\n", "\r"}
Digits == <<"0","1","2","3","4","5","6","7","8","9">>

LowerChar(c) ==
    IF \E i \in 1..26 : UpperCs[i] = c
    THEN LowerCs[CHOOSE i \in 1..26 : UpperCs[i] = c]
    ELSE c

\* cs.lower()
Lower(cs) == [i \in 1..Len(cs) |-> LowerChar(cs[i])]

\* cs.strip()
Strip(cs) ==
    LET keep == {i \in 1..Len(cs) : cs[i] \notin Whitespace}
    IN  IF keep = {} THEN <<>>
        ELSE SubSeq(cs, CHOOSE i \in keep : \A j \in keep : i <= j,
                        CHOOSE i \in keep : \A j \in keep : i >= j)

\* needle in cs
Contains(cs, needle) ==
    \E i \in 0..(Len(cs) - Len(needle)) :
        SubSeq(cs, i + 1, i + Len(needle)) = needle

RECURSIVE NatStr(_)
\* str(k) for a natural number k
NatStr(k) == IF k < 10 THEN <<Digits[k + 1]>>
             ELSE NatStr(k \div 10) \o <<Digits[(k % 10) + 1]>>

\* str(v) for the scalars the code stringifies
PyStr(v) ==
    CASE IsStr(v) -> v.s
      [] IsNull(v) -> <<"N","o","n","e">>
      [] IsNum(v) -> IF v.n < 0 THEN <<"-">> \o NatStr(-v.n) ELSE NatStr(v.n)

-----------------------------------------------------------------------------
(* The oracle: what the external completion service answers for a chunk.   *)
(* The chunked path is entered only above chunk_threshold characters, i.e. *)
(* with at least MinChunks windows of 15000 characters stepping by 13000.  *)

max_workers == 5
chunk_threshold == 50000
chunk_size == 15000
overlap == 2000

\* len(_get_text_chunks(text)) for the shortest text that is chunked
MinChunks ==
    ((chunk_threshold + 1) + (chunk_size - overlap) - 1) \div (chunk_size - overlap)
Chunks == 1..total_chunks

S(cs) == Str(cs)
Kitchen == <<"K","i","t","c","h","e","n">>
KitchenLoud == <<" ","K","I","T","C","H","E","N"," ">>
Bath == <<"B","a","t","h">>
Hall == <<"H","a","l","l">>
R1 == <<"R","1">>
R1Padded == <<" ","R","1">>
R2 == <<"R","2">>
PASSED == <<"P","A","S","S","E","D">>
FLAGGED == <<"F","L","A","G","G","E","D">>
Door == <<"D","o","o","r">>
Window == <<"W","i","n","d","o","w">>
OpensIntoExterior == <<"O","p","e","n","s"," ","i","n","t","o"," ",
                       "E","x","t","e","r","i","o","r">>
opens_into == <<"o","p","e","n","s"," ","i","n","t","o">>
Dims3x8 == <<"3","'"," ","X"," ","8","'">>
Dims2x4 == <<"2","'"," ","X"," ","4","'">>
Paint == <<"P","a","i","n","t">>
Floor == <<"F","l","o","o","r">>
Closet == <<"C","l","o","s","e","t">>
Unknown == <<"U","n","k","n","o","w","n">>
HallLoud == <<" ","H","A","L","L"," ">>
UnnamedRoom1 == <<"u","n","n","a","m","e","d","_","r","o","o","m","_","1">>

Item(desc, qty) == Dict([description |-> S(desc), quantity |-> Num(qty)])
Validation(rule, status) == Dict([rule |-> S(rule), status |-> S(status)])
ValidationD(rule, status, details) ==
    Dict([rule |-> S(rule), status |-> S(status), details |-> S(details)])

\* the line item only chunk i's response carries
ChunkItem(i) == Item(<<"c","h","u","n","k">> \o NatStr(i), i)

\* The documents the oracle's answers decode to.
DocA(i) ==
    Dict([document_metadata |-> Dict([claim |-> Num(i)]),
          rooms |-> List(<<
              Dict([name |-> S(Kitchen),
                    line_items |-> List(<<Item(Paint, 2), ChunkItem(i)>>),
                    rule_validations |-> List(<<Validation(R1, PASSED)>>)])>>),
          validation_summary |->
              Dict([total_rules_checked |-> Num(2), critical_flags |-> Num(0)]),
          grand_total_areas |-> Dict([walls |-> Num(100), floor |-> Null])])

DocB(i) ==
    Dict([rooms |-> List(<<
              Dict([name |-> S(KitchenLoud),
                    line_items |-> List(<<Item(Floor, 1), ChunkItem(i)>>),
                    rule_validations |-> List(<<Validation(R1, FLAGGED)>>)]),
              Dict([name |-> S(Bath),
                    line_items |-> List(<<ChunkItem(i)>>)])>>),
          validation_summary |->
              Dict([total_rules_checked |-> Num(2), critical_flags |-> Num(1)]),
          grand_total_areas |-> Dict([walls |-> Num(120), floor |-> Num(50)]),
          summary_for_dwelling |-> Dict([total |-> Num(900 + i)])])

DocC(i) ==
    Dict([areas |-> List(<<
              Dict([name |-> S(Hall),
                    line_items |-> List(<<ChunkItem(i)>>),
                    rule_validations |-> List(<<Validation(R2, PASSED)>>)])>>),
          validation_summary |->
              Dict([total_rules_checked |-> Num(1), critical_flags |-> Num(1)]),
          grand_total_areas |-> Dict([walls |-> Null]),
          review_findings |-> List(<<Dict([description |-> S(Paint)])>>)])

\* the chunk_data _process_single_chunk returns for chunk i when no call of
\* it raises: the oracle's answer for the chunk, decoded
ProcessSingleChunk(i) ==
    CASE i % 3 = 1 -> DocA(i)
      [] i % 3 = 2 -> DocB(i)
      [] i % 3 = 0 -> DocC(i)

\* every future returning what the last submitted chunk produced
FutureResultLateBound(i) == ProcessSingleChunk(total_chunks)

\* future.result() of chunk i's future when it holds no exception
FutureResult(i) == ProcessSingleChunk(i)

-----------------------------------------------------------------------------
(* Dispatch: ThreadPoolExecutor(max_workers=5), submit, as_completed *)

NoneSlot == Null
Running == {"CALL1", "CALL2"}
InFlight == {i \in Chunks : fstate[i] \in Running}

\* an executor that starts a thread for every queued call
WorkerAlwaysFree(inflight) == TRUE

\* the executor has an idle worker thread
WorkerFree(inflight) == Cardinality(inflight) < max_workers

\* the work queue is FIFO: chunk i is taken when everything before it was
IsNextQueued(i) ==
    /\ fstate[i] = "PENDING"
    /\ \A j \in 1..(i - 1) : fstate[j] # "PENDING"

\* results appended in the order the futures complete
SlotByCompletion(i) == Cardinality(yielded) + 1

\* where as_completed stores what future i produced
SlotOf(i) == i

\* a loop that stops waiting after the first completed future
AnyYielded(y) == y # {}

\* the as_completed loop is over once every future has been yielded
AllYielded(y) == y = Chunks

\* executor.submit(self._process_single_chunk, chunk_text, ..., i + 1, total)
Submit ==
    /\ mainpc = "submit"
    /\ submitted < total_chunks
    /\ submitted' = submitted + 1
    /\ fstate' = [fstate EXCEPT ![submitted + 1] = "PENDING"]
    /\ mainpc' = IF submitted + 1 = total_chunks THEN "as_completed" ELSE "submit"
    /\ UNCHANGED <<textVars, parseVars, total_chunks, rules, fexc, yielded,
                   chunk_results, mergeVars, roomVars>>

\* a worker takes chunk i, builds its prompts and issues the first oracle call
StartCall(i) ==
    /\ IsNextQueued(i)
    /\ WorkerFree(InFlight)
    /\ fstate' = [fstate EXCEPT ![i] = "CALL1"]
    /\ UNCHANGED <<textVars, parseVars, total_chunks, rules, submitted, fexc,
                   yielded, chunk_results, mainpc, mergeVars, roomVars>>

\* a worker takes chunk i and _create_prompts raises
PromptRaise(i) ==
    /\ IsNextQueued(i)
    /\ WorkerFree(InFlight)
    /\ fstate' = [fstate EXCEPT ![i] = "FINISHED"]
    /\ fexc' = [fexc EXCEPT ![i] = TRUE]
    /\ UNCHANGED <<textVars, parseVars, total_chunks, rules, submitted,
                   yielded, chunk_results, mainpc, mergeVars, roomVars>>

\* chat.completions.create returns; the response is parsed and returned
CallReturn(i) ==
    /\ fstate[i] \in Running
    /\ fstate' = [fstate EXCEPT ![i] = "FINISHED"]
    /\ UNCHANGED <<textVars, parseVars, total_chunks, rules, submitted, fexc,
                   yielded, chunk_results, mainpc, mergeVars, roomVars>>

\* the first create(...) raises: the except branch calls create again
Call1Raise(i) ==
    /\ fstate[i] = "CALL1"
    /\ fstate' = [fstate EXCEPT ![i] = "CALL2"]
    /\ UNCHANGED <<textVars, parseVars, total_chunks, rules, submitted, fexc,
                   yielded, chunk_results, mainpc, mergeVars, roomVars>>

\* the second create(...) raises (oracle error, timeout): the worker raises
Call2Raise(i) ==
    /\ fstate[i] = "CALL2"
    /\ fstate' = [fstate EXCEPT ![i] = "FINISHED"]
    /\ fexc' = [fexc EXCEPT ![i] = TRUE]
    /\ UNCHANGED <<textVars, parseVars, total_chunks, rules, submitted,
                   yielded, chunk_results, mainpc, mergeVars, roomVars>>

\* create(...) returns a response without content:
\* response.choices[0].message.content.strip() raises and so does the worker
ContentRaise(i) ==
    /\ fstate[i] \in Running
    /\ fstate' = [fstate EXCEPT ![i] = "FINISHED"]
    /\ fexc' = [fexc EXCEPT ![i] = TRUE]
    /\ UNCHANGED <<textVars, parseVars, total_chunks, rules, submitted,
                   yielded, chunk_results, mainpc, mergeVars, roomVars>>

\* a handler that logs the failure and leaves the slot as allocated
CollectedValueUnset(i) == IF fexc[i] THEN NoneSlot ELSE FutureResult(i)

\* try: chunk_results[idx] = future.result()
\* except Exception: chunk_results[idx] = {}
CollectedValue(i) == IF fexc[i] THEN EmptyDict ELSE FutureResult(i)

\* one iteration of "for future in as_completed(future_to_chunk)"
Collect(i) ==
    /\ mainpc = "as_completed"
    /\ fstate[i] = "FINISHED"
    /\ i \notin yielded
    /\ yielded' = yielded \cup {i}
    /\ chunk_results' = [chunk_results EXCEPT ![SlotOf(i)] = CollectedValue(i)]
    /\ mainpc' = IF AllYielded(yielded') THEN "merge" ELSE "as_completed"
    /\ UNCHANGED <<textVars, parseVars, total_chunks, rules, submitted, fstate, fexc,
                   mergeVars, roomVars>>

-----------------------------------------------------------------------------
(* Reconciliation: the merge loop of _process_with_chunking *)

RecapTaxes == "Recap of Taxes Overhead and Profit"
RecapByRoom == "Recap by Room"

\* master_json as initialised before the merge loop
MasterInit ==
    Dict(("document_metadata" :> EmptyDict)
      @@ ("validation_summary" :>
             Dict([total_rules_checked |-> Num(0), critical_flags |-> Num(0),
                   status |-> S(PASSED)]))
      @@ ("rooms" :> EmptyList)
      @@ ("grand_total_areas" :> EmptyDict)
      @@ ("summary_for_dwelling" :> EmptyDict)
      @@ (RecapTaxes :> EmptyList)
      @@ (RecapByRoom :> EmptyList)
      @@ ("recap_by_category" :> EmptyList)
      @@ ("review_findings" :> EmptyList))

\* the assignment without its "is not None" test
MergedTotalAlways(target, key, value) == Put(target, key, value)

\* the value the loop "if value is not None: target[key] = value" leaves
\* under key, given what the key held (absent = Null is never stored)
MergedTotal(target, key, value) ==
    IF ~IsNull(value) THEN Put(target, key, value) ELSE target

RECURSIVE UpdateNonNull(_, _, _)
\* for key, value in source.items(): if value is not None: target[key] = value
UpdateNonNull(target, source, keys) ==
    IF keys = {} THEN target
    ELSE LET key == CHOOSE k \in keys : TRUE
         IN  UpdateNonNull(MergedTotal(target, key, source.m[key]), source,
                           keys \ {key})

\* the totals block for one of grand_total_areas / summary_for_dwelling
MergeTotals(master, chunk_data, field) ==
    IF Truthy(GetN(chunk_data, field))
    THEN LET source == Get(chunk_data, field, EmptyDict)
         IN  Put(master, field,
                 UpdateNonNull(master.m[field], source, DOMAIN source.m))
    ELSE master

RECURSIVE AppendNew(_, _, _, _)
\* for item in items: if key(item) not in seen: acc.append(item); seen.add(key)
AppendNew(acc, seen, items, keys) ==
    IF items = <<>> THEN acc
    ELSE IF Head(keys) \notin seen
         THEN AppendNew(Append(acc, Head(items)), seen \cup {Head(keys)},
                        Tail(items), Tail(keys))
         ELSE AppendNew(acc, seen, Tail(items), Tail(keys))

DescKey(item) == Get(item, "description", S(<<>>))
RoomNameKey(item) == Get(item, "room_name", S(<<>>))
CatKey(item) == <<Get(item, "category", S(<<>>)), Get(item, "section_type", S(<<>>))>>

\* a recap list keyed by description (taxes, review findings)
MergeByDesc(master, chunk_data, field) ==
    LET incoming == Get(chunk_data, field, EmptyList)
        have == master.m[field].l
    IN  IF Truthy(incoming)
        THEN Put(master, field, List(AppendNew(have,
                 {DescKey(have[j]) : j \in 1..Len(have)}, incoming.l,
                 [j \in 1..Len(incoming.l) |-> DescKey(incoming.l[j])])))
        ELSE master

\* "Recap by Room", keyed by room_name
MergeByRoomName(master, chunk_data, field) ==
    LET incoming == Get(chunk_data, field, EmptyList)
        have == master.m[field].l
    IN  IF Truthy(incoming)
        THEN Put(master, field, List(AppendNew(have,
                 {RoomNameKey(have[j]) : j \in 1..Len(have)}, incoming.l,
                 [j \in 1..Len(incoming.l) |-> RoomNameKey(incoming.l[j])])))
        ELSE master

\* recap_by_category, keyed by (category, section_type)
MergeByCategory(master, chunk_data, field) ==
    LET incoming == Get(chunk_data, field, EmptyList)
        have == master.m[field].l
    IN  IF Truthy(incoming)
        THEN Put(master, field, List(AppendNew(have,
                 {CatKey(have[j]) : j \in 1..Len(have)}, incoming.l,
                 [j \in 1..Len(incoming.l) |-> CatKey(incoming.l[j])])))
        ELSE master

\* rooms_data of a chunk: "rooms", or "areas" when that is missing or empty
RoomsData(chunk_data) ==
    IF Truthy(Get(chunk_data, "rooms", EmptyList))
    THEN Get(chunk_data, "rooms", EmptyList)
    ELSE Get(chunk_data, "areas", EmptyList)

\* rooms assigned from the chunk instead of extended by it
ReplaceRooms(master, chunk_data) ==
    IF IsList(RoomsData(chunk_data))
    THEN Put(master, "rooms", List(RoomsData(chunk_data).l))
    ELSE master

\* master_json["rooms"].extend(rooms_data) when rooms_data is a list
ExtendRooms(master, chunk_data) ==
    IF IsList(RoomsData(chunk_data))
    THEN Put(master, "rooms", List(master.m["rooms"].l \o RoomsData(chunk_data).l))
    ELSE master

TakeMetadata(master, i, chunk_data) ==
    IF i = 1
    THEN Put(master, "document_metadata",
             Get(chunk_data, "document_metadata", EmptyDict))
    ELSE master

\* an empty (falsy) chunk is skipped by "if not chunk_data: continue"
Skipped(chunk_data) == ~Truthy(chunk_data)

\* the body of the merge loop for chunk i (1-based) applied to master_json
MergeChunkInto(master, i, chunk_data) ==
    IF Skipped(chunk_data) THEN master
    ELSE LET m1 == TakeMetadata(master, i, chunk_data)
             m2 == ExtendRooms(m1, chunk_data)
             m3 == MergeTotals(m2, chunk_data, "grand_total_areas")
             m4 == MergeTotals(m3, chunk_data, "summary_for_dwelling")
             m5 == MergeByDesc(m4, chunk_data, RecapTaxes)
             m6 == MergeByRoomName(m5, chunk_data, RecapByRoom)
             m7 == MergeByCategory(m6, chunk_data, "recap_by_category")
         IN  MergeByDesc(m7, chunk_data, "review_findings")

\* the loop body runs through: the chunk is skipped or is a dict, the only
\* type with the .get the body calls
Mergeable(cd) == Skipped(cd) \/ IsDict(cd)

\* what chunk_data adds to one of the per-chunk summary counters
SummaryCount(chunk_data, counter) ==
    IF ~Skipped(chunk_data) /\ Has(chunk_data, "validation_summary")
    THEN Get(chunk_data.m["validation_summary"], counter, Num(0)).n
    ELSE 0

\* one iteration of "for i, chunk_data in enumerate(chunk_results)"
MergeChunk ==
    /\ mainpc = "merge"
    /\ merge_i <= total_chunks
    /\ Mergeable(chunk_results[merge_i])
    /\ master_json' = MergeChunkInto(master_json, merge_i, chunk_results[merge_i])
    /\ total_rules_checked' = total_rules_checked
            + SummaryCount(chunk_results[merge_i], "total_rules_checked")
    /\ total_flags' = total_flags
            + SummaryCount(chunk_results[merge_i], "critical_flags")
    /\ merge_i' = merge_i + 1
    /\ mainpc' = IF merge_i = total_chunks THEN "dedup" ELSE "merge"
    /\ UNCHANGED <<textVars, parseVars, total_chunks, rules, dispatchVars, roomVars>>

-----------------------------------------------------------------------------
(* _merge_and_deduplicate_rooms: keys, dimensions, line items, validations *)

unknown == <<"u","n","k","n","o","w","n">>
none == <<"n","o","n","e">>
unnamed_room_ == <<"u","n","n","a","m","e","d","_","r","o","o","m","_">>

\* a or b
Or(a, b) == IF Truthy(a) THEN a ELSE b

\* room_key of a room when unique_rooms already holds n entries
RoomKey(room, n) ==
    LET room_name == Lower(Strip(PyStr(Get(room, "name", S(Unknown)))))
        grouping == IF Truthy(GetN(room, "grouping"))
                    THEN Lower(Strip(PyStr(GetN(room, "grouping"))))
                    ELSE <<>>
        named == IF room_name = <<>> \/ room_name = unknown
                 THEN unnamed_room_ \o NatStr(n)
                 ELSE room_name
    IN  IF grouping # <<>> THEN named \o <<":", ":">> \o grouping ELSE named

\* first occurrence: room.copy() with the three list fields defaulted
SeedRoom(room) ==
    SetDefault(SetDefault(SetDefault(room, "line_items", EmptyList),
                          "sub_areas", EmptyList),
               "rule_validations", EmptyList)

RECURSIVE FillDims(_, _, _)
\* for key, value in new_dims.items(): fill what existing_dims lacks
FillDims(existing_dims, new_dims, keys) ==
    IF keys = {} THEN existing_dims
    ELSE LET key == CHOOSE k \in keys : TRUE
             value == new_dims.m[key]
             filled == IF ~IsNull(value) /\ IsNull(GetN(existing_dims, key))
                       THEN Put(existing_dims, key, value)
                       ELSE existing_dims
         IN  FillDims(filled, new_dims, keys \ {key})

MergeDimensionsAdopting(existing_room, room) ==
    IF Truthy(GetN(room, "dimensions"))
    THEN Put(existing_room, "dimensions", GetN(room, "dimensions"))
    ELSE existing_room
\* step 2: dimensions
MergeDimensions(existing_room, room) ==
    LET new_dims == GetN(room, "dimensions")
        existing_dims == GetN(existing_room, "dimensions")
    IN  IF Truthy(new_dims) /\ ~Truthy(existing_dims)
        THEN Put(existing_room, "dimensions", new_dims)
        ELSE IF IsDict(new_dims) /\ IsDict(existing_dims)
             THEN Put(existing_room, "dimensions",
                      FillDims(existing_dims, new_dims, DOMAIN new_dims.m))
             ELSE existing_room

\* (description.strip().lower(), str(quantity)) of a line item
ItemSig(item) ==
    <<Lower(Strip(PyStr(Get(item, "description", S(<<>>))))),
      PyStr(Get(item, "quantity", S(<<>>)))>>

\* step 3: line items
MergeLineItems(existing_room, room) ==
    LET new_items == Or(Or(GetN(room, "line_items"), GetN(room, "items")),
                        EmptyList).l
        existing_items == Get(existing_room, "line_items", EmptyList).l
    IN  Put(existing_room, "line_items",
            List(AppendNew(existing_items,
                           {ItemSig(existing_items[j]) : j \in 1..Len(existing_items)},
                           new_items,
                           [j \in 1..Len(new_items) |-> ItemSig(new_items[j])])))

RuleId(v) == Strip(PyStr(Get(v, "rule", S(<<>>))))

\* the first index of seq whose element satisfies the test given as a set
FirstIn(idx) == CHOOSE k \in idx : \A j \in idx : k <= j
LastIn(idx) == CHOOSE k \in idx : \A j \in idx : k >= j

\* the later duplicate's status taken whatever it is
TakeLatestValidation(existing_val, val) ==
    Put(existing_val, "status", GetN(val, "status"))

\* "Replace PASSED with FLAGGED": what the matching existing entry becomes
UpgradeValidation(existing_val, val) ==
    IF GetN(val, "status") = S(FLAGGED) /\ GetN(existing_val, "status") = S(PASSED)
    THEN Put(Put(Put(existing_val, "status", S(FLAGGED)),
                 "details", Get(val, "details", Get(existing_val, "details", S(<<>>)))),
             "severity", Get(val, "severity", GetN(existing_val, "severity")))
    ELSE existing_val

\* the loop body of step 7 for one incoming validation
MergeOneValidation(existing_validations, val) ==
    LET rule_id == RuleId(val)
        existing_rule_ids ==
            {RuleId(existing_validations[j]) : j \in 1..Len(existing_validations)}
        hits == {j \in 1..Len(existing_validations) :
                    RuleId(existing_validations[j]) = rule_id}
    IN  IF rule_id # <<>> /\ rule_id \notin existing_rule_ids
        THEN Append(existing_validations, val)
        ELSE IF rule_id \in existing_rule_ids
             THEN [existing_validations EXCEPT
                      ![FirstIn(hits)] = UpgradeValidation(@, val)]
             ELSE existing_validations

RECURSIVE MergeValidationList(_, _)
MergeValidationList(existing_validations, new_validations) ==
    IF new_validations = <<>> THEN existing_validations
    ELSE MergeValidationList(
             MergeOneValidation(existing_validations, Head(new_validations)),
             Tail(new_validations))

\* step 7: rule_validations
MergeValidations(existing_room, room) ==
    LET new_validations == Get(room, "rule_validations", EmptyList).l
        seeded == SetDefault(existing_room, "rule_validations", EmptyList)
    IN  Put(seeded, "rule_validations",
            List(MergeValidationList(seeded.m["rule_validations"].l,
                                     new_validations)))

-----------------------------------------------------------------------------
(* _merge_and_deduplicate_rooms: architectural features and sub-areas *)

FeatureType(f) == Lower(Strip(PyStr(Get(f, "feature_type", S(<<>>)))))
FeatureDims(f) == Lower(Strip(PyStr(Get(f, "dimensions_raw", S(<<>>)))))
FeatureAction(f) == Strip(PyStr(Get(f, "action_description", S(<<>>))))
FeatureSig(f) == <<FeatureType(f), FeatureDims(f)>>

\* the branch taken for features whose type holds "opens into"
IsFragment(feature) == Contains(FeatureType(feature), opens_into)

\* an existing feature a fragment may be folded into
LacksDimsOrAction(existing) ==
    \/ FeatureDims(existing) = <<>>
    \/ FeatureDims(existing) = none
    \/ IsNull(GetN(existing, "action_description"))

\* what the fragment writes into the existing feature it is folded into
FoldFragment(existing, feature) ==
    LET f_type == FeatureType(feature)
        f_dims == FeatureDims(feature)
        f_action == FeatureAction(feature)
        e1 == IF f_dims # <<>> /\ f_dims # none
              THEN Put(existing, "dimensions_raw", GetN(feature, "dimensions_raw"))
              ELSE existing
    IN  IF f_action # <<>> \/ f_type # <<>>
        THEN Put(e1, "action_description",
                 S(IF f_action # <<>> THEN f_action ELSE f_type))
        ELSE e1

\* existing has the type but no dimensions, the incoming feature has them
FillsDims(existing, feature) ==
    /\ FeatureType(existing) = FeatureType(feature)
    /\ FeatureDims(existing) \in {<<>>, none}
    /\ FeatureDims(feature) # <<>>

\* existing has type and dimensions, the incoming feature has the action
FillsAction(existing, feature) ==
    /\ FeatureType(existing) = FeatureType(feature)
    /\ FeatureDims(existing) # <<>>
    /\ FeatureDims(feature) \in {<<>>, none}
    /\ FeatureAction(feature) # <<>>

\* what the cross-chunk split branch writes into the existing feature
FillFeature(existing, feature) ==
    IF FillsDims(existing, feature)
    THEN LET e1 == Put(existing, "dimensions_raw", GetN(feature, "dimensions_raw"))
         IN  IF FeatureAction(feature) # <<>>
             THEN Put(e1, "action_description", GetN(feature, "action_description"))
             ELSE e1
    ELSE Put(existing, "action_description", GetN(feature, "action_description"))

\* the loop body for one incoming feature against the existing list
MergeOneFeature(existing_arch_features, feature) ==
    LET n == Len(existing_arch_features)
        lacking == {k \in 1..n : LacksDimsOrAction(existing_arch_features[k])}
        sigs == {FeatureSig(existing_arch_features[k]) : k \in 1..n}
        partial == {k \in 1..n :
                       \/ FillsDims(existing_arch_features[k], feature)
                       \/ FillsAction(existing_arch_features[k], feature)}
    IN  IF IsFragment(feature)
        THEN IF lacking # {}
             THEN [existing_arch_features EXCEPT
                      ![LastIn(lacking)] = FoldFragment(@, feature)]
             ELSE existing_arch_features
        ELSE IF FeatureSig(feature) \in sigs
             THEN existing_arch_features
             ELSE IF partial # {}
                  THEN [existing_arch_features EXCEPT
                           ![FirstIn(partial)] = FillFeature(@, feature)]
                  ELSE Append(existing_arch_features, feature)

RECURSIVE MergeFeatureList(_, _)
\* for feature in new_features: ...
MergeFeatureList(existing_arch_features, new_features) ==
    IF new_features = <<>> THEN existing_arch_features
    ELSE MergeFeatureList(MergeOneFeature(existing_arch_features, Head(new_features)),
                          Tail(new_features))

RECURSIVE MergeFeatureListInPlace(_, _)
\* the same loop when the list iterated is the list merged into (step 6 on a
\* sub-area that step 4 has just appended: target_sub_area is sub_area), so
\* each feature is read from the list as the earlier iterations left it
MergeFeatureListInPlace(features, k) ==
    IF k > Len(features) THEN features
    ELSE MergeFeatureListInPlace(MergeOneFeature(features, features[k]), k + 1)

\* step 5: architectural_features at room level
MergeRoomFeatures(existing_room, room) ==
    LET new_arch_features == Get(room, "architectural_features", EmptyList)
        existing_arch_features ==
            Get(existing_room, "architectural_features", EmptyList)
    IN  IF Truthy(new_arch_features)
        THEN Put(existing_room, "architectural_features",
                 List(MergeFeatureList(existing_arch_features.l,
                                       new_arch_features.l)))
        ELSE existing_room

SubName(sa) == Lower(Strip(PyStr(Get(sa, "name", S(<<>>)))))

\* t_items.extend([i for i in s_items if i not in t_items])
ExtendSubItems(target, sub_area) ==
    LET seeded == SetDefault(target, "line_items", EmptyList)
        t_items == seeded.m["line_items"].l
        s_items == Or(Get(sub_area, "line_items", EmptyList),
                      Get(sub_area, "items", EmptyList)).l
        fresh == SelectSeq(s_items,
                     LAMBDA i : \A j \in 1..Len(t_items) : t_items[j] # i)
    IN  Put(seeded, "line_items", List(t_items \o fresh))

\* step 4 for one incoming sub-area; st = [subs, names, own], own being the
\* pairs <<j, t>> of incoming sub-areas appended as existing_sub_areas[t]
MergeOneSubArea(st, sub_area, j) ==
    LET sa_name == SubName(sub_area)
        hits == {t \in 1..Len(st.subs) : SubName(st.subs[t]) = sa_name}
    IN  IF sa_name # <<>> /\ sa_name \notin st.names
        THEN [subs |-> Append(st.subs, sub_area),
              names |-> st.names \cup {sa_name},
              own |-> st.own \cup {<<j, Len(st.subs) + 1>>}]
        ELSE IF sa_name \in st.names /\ hits # {}
             THEN [st EXCEPT !.subs[FirstIn(hits)] = ExtendSubItems(@, sub_area)]
             ELSE st

RECURSIVE MergeSubAreaList(_, _, _)
MergeSubAreaList(st, new_sub_areas, j) ==
    IF j > Len(new_sub_areas) THEN st
    ELSE MergeSubAreaList(MergeOneSubArea(st, new_sub_areas[j], j),
                          new_sub_areas, j + 1)

\* step 6 for one incoming sub-area: features of the matching target
MergeOneSubAreaFeatures(subs, own, sub_area, j) ==
    LET sa_name == SubName(sub_area)
        hits == {t \in 1..Len(subs) : SubName(subs[t]) = sa_name}
        t == FirstIn(hits)
        target_arch == Get(subs[t], "architectural_features", EmptyList)
        new_sub_arch == IF <<j, t>> \in own
                        THEN target_arch
                        ELSE Get(sub_area, "architectural_features", EmptyList)
    IN  IF sa_name # <<>> /\ hits # {} /\ Truthy(new_sub_arch)
        THEN [subs EXCEPT ![t] =
                 Put(@, "architectural_features",
                     List(IF <<j, t>> \in own
                          THEN MergeFeatureListInPlace(target_arch.l, 1)
                          ELSE MergeFeatureList(target_arch.l, new_sub_arch.l)))]
        ELSE subs

RECURSIVE MergeSubAreaFeatures(_, _, _, _)
MergeSubAreaFeatures(subs, own, new_sub_areas, j) ==
    IF j > Len(new_sub_areas) THEN subs
    ELSE MergeSubAreaFeatures(
             MergeOneSubAreaFeatures(subs, own, new_sub_areas[j], j),
             own, new_sub_areas, j + 1)

\* steps 2 to 7: merge a duplicate room into the existing entry
MergeRoomInto(existing_room, room) ==
    LET r2 == MergeDimensions(existing_room, room)
        r3 == MergeLineItems(r2, room)
        new_sub_areas == Get(room, "sub_areas", EmptyList).l
        existing_sub_areas == Get(r3, "sub_areas", EmptyList).l
        st == MergeSubAreaList(
                  [subs |-> existing_sub_areas,
                   names |-> {SubName(existing_sub_areas[t]) :
                                 t \in 1..Len(existing_sub_areas)},
                   own |-> {}],
                  new_sub_areas, 1)
        r4 == Put(r3, "sub_areas", List(st.subs))
        r5 == MergeRoomFeatures(r4, room)
        r6 == Put(r5, "sub_areas",
                  List(MergeSubAreaFeatures(st.subs, st.own, new_sub_areas, 1)))
    IN  MergeValidations(r6, room)

\* one iteration of "for room in rooms" on the insertion-ordered dict
RoomStep(unique, room) ==
    LET room_key == RoomKey(room, Len(unique))
        hits == {k \in 1..Len(unique) : unique[k].key = room_key}
    IN  IF hits = {}
        THEN Append(unique, [key |-> room_key, room |-> SeedRoom(room)])
        ELSE [unique EXCEPT ![FirstIn(hits)].room = MergeRoomInto(@, room)]

RECURSIVE FoldRooms(_, _)
FoldRooms(unique, rs) ==
    IF rs = <<>> THEN unique ELSE FoldRooms(RoomStep(unique, Head(rs)), Tail(rs))

\* list(unique_rooms.values())
Values(unique) == [k \in 1..Len(unique) |-> unique[k].room]

\* _merge_and_deduplicate_rooms(rooms)
MergeAndDeduplicateRooms(rs) == Values(FoldRooms(<<>>, rs))

-----------------------------------------------------------------------------
(* The end of _process_with_chunking: deduplication, validation summary *)

RECURSIVE CountFlagged(_)
\* FLAGGED entries in a list of validations
CountFlagged(validations) ==
    IF validations = <<>> THEN 0
    ELSE (IF GetN(Head(validations), "status") = S(FLAGGED) THEN 1 ELSE 0)
         + CountFlagged(Tail(validations))

RECURSIVE TotalFlagsRecalculated(_)
\* total_flags_recalculated over the final rooms
TotalFlagsRecalculated(rs) ==
    IF rs = <<>> THEN 0
    ELSE CountFlagged(Get(Head(rs), "rule_validations", EmptyList).l)
         + TotalFlagsRecalculated(Tail(rs))

\* the summed per-chunk counters reported whatever the rooms hold
FinalFlagsSummed(recalculated, flags) == flags

\* final_flags when a rule list was supplied
FinalFlags(recalculated, flags) == IF recalculated > 0 THEN recalculated ELSE flags

\* the per-chunk sum reported also when a rule list was supplied
RulesCheckedSummed(rs, checked) == checked

\* validation_summary["total_rules_checked"] at the end of the run
RulesChecked(rs, checked) == IF Len(rs) > 0 THEN Len(rs) ELSE checked

\* the validation_summary written at the end of the run
ValidationSummary(final_rooms, rs, flags, checked) ==
    LET final_flags == IF Len(rs) > 0
                       THEN FinalFlags(TotalFlagsRecalculated(final_rooms), flags)
                       ELSE flags
    IN  Dict([total_rules_checked |-> Num(RulesChecked(rs, checked)),
              critical_flags |-> Num(final_flags),
              status |-> S(IF final_flags = 0 THEN PASSED ELSE FLAGGED)])

\* master_json as returned, given the merged (not yet deduplicated) document
Finished(master, rs, flags, checked) ==
    LET final_rooms == MergeAndDeduplicateRooms(master.m["rooms"].l)
    IN  Put(Put(master, "rooms", List(final_rooms)),
            "validation_summary",
            ValidationSummary(final_rooms, rs, flags, checked))

RECURSIVE MergeLoop(_, _, _)
\* master_json after the merge loop has run over results[i..]
MergeLoop(master, results, i) ==
    IF i > Len(results) THEN master
    ELSE MergeLoop(MergeChunkInto(master, i, results[i]), results, i + 1)

RECURSIVE SummarySum(_, _, _)
\* what the merge loop adds up for one of the summary counters
SummarySum(results, counter, i) ==
    IF i > Len(results) THEN 0
    ELSE SummaryCount(results[i], counter) + SummarySum(results, counter, i + 1)

\* the document _process_with_chunking returns for a filled result array
Reconcile(results, rs) ==
    Finished(MergeLoop(MasterInit, results, 1), rs,
             SummarySum(results, "critical_flags", 1),
             SummarySum(results, "total_rules_checked", 1))

\* everything after the merge loop
Finish ==
    /\ mainpc = "dedup"
    /\ master_json' = Finished(master_json, rules, total_flags, total_rules_checked)
    /\ mainpc' = "done"
    /\ UNCHANGED <<textVars, parseVars, total_chunks, rules, dispatchVars, merge_i,
                   total_flags, total_rules_checked, roomVars>>

-----------------------------------------------------------------------------
(* The chunked run *)

RuleLists == {<<>>, <<R1, R2>>}

\* no response is being parsed
ParseIdle ==
    /\ response_content = <<>>
    /\ is_truncated = FALSE
    /\ chunk_number = 1
    /\ fix_calls = <<>>
    /\ parsed = NoneSlot
    /\ structured_data = NoneSlot
    /\ ppc = "idle"

\* _get_text_chunks is not running: no text, the default arguments
TextIdle ==
    /\ full_text = <<>>
    /\ text_chunk_size = chunk_size
    /\ text_overlap = overlap
    /\ start = 0
    /\ chunks = <<>>
    /\ tpc = "idle"

Init ==
    /\ total_chunks \in MinChunks..MaxChunks
    /\ rules \in RuleLists
    /\ submitted = 0
    /\ fstate = [i \in Chunks |-> "UNSUBMITTED"]
    /\ fexc = [i \in Chunks |-> FALSE]
    /\ yielded = {}
    /\ chunk_results = [i \in Chunks |-> NoneSlot]
    /\ mainpc = "submit"
    /\ merge_i = 1
    /\ master_json = MasterInit
    /\ total_flags = 0
    /\ total_rules_checked = 0
    /\ rooms = <<>>
    /\ room_i = 1
    /\ unique_rooms = <<>>
    /\ result = <<>>
    /\ rpc = "idle"
    /\ TextIdle
    /\ ParseIdle

Next ==
    \/ Submit
    \/ \E i \in Chunks : StartCall(i)
    \/ \E i \in Chunks : PromptRaise(i)
    \/ \E i \in Chunks : CallReturn(i)
    \/ \E i \in Chunks : Call1Raise(i)
    \/ \E i \in Chunks : Call2Raise(i)
    \/ \E i \in Chunks : ContentRaise(i)
    \/ \E i \in Chunks : Collect(i)
    \/ MergeChunk
    \/ Finish

Spec == Init /\ [][Next]_vars

-----------------------------------------------------------------------------
(* Properties of dispatch *)

Merging == mainpc \in {"merge", "dedup", "done"}
Failed == {i \in Chunks : fexc[i]}
Survivors == {i \in Chunks : fstate[i] = "FINISHED" /\ ~fexc[i]}

\* C1: in every reachable state, whatever the number of chunks and the order
\* in which the calls complete, a slot of the result array is unset exactly
\* until its own future has been collected, and from then on slot i holds
\* the outcome of chunk i (its document, or the empty document when chunk i
\* raised) and of no other chunk: the line item that closes its first room
\* is the one numbered i, which only chunk i's response has.
C1_SlotHoldsOwnChunk ==
    \A i \in Chunks :
        /\ (chunk_results[i] # NoneSlot) <=> (i \in yielded)
        /\ i \in yielded =>
              /\ chunk_results[i] =
                    IF fexc[i] THEN EmptyDict ELSE ProcessSingleChunk(i)
              /\ ~fexc[i] =>
                    LET items == RoomsData(chunk_results[i]).l[1].m["line_items"].l
                    IN  items[Len(items)].m["quantity"] = Num(i)

\* a later chunk has completed and been stored while an earlier one is
\* still being processed
C1_Witness ==
    \E i, j \in Chunks :
        /\ i < j
        /\ fstate[i] \in Running
        /\ chunk_results[i] = NoneSlot
        /\ ~fexc[j]
        /\ chunk_results[j] = ProcessSingleChunk(j)

\* C2: once the collecting loop is over, for any subset of chunks whose
\* processing raised, each of those chunks' slots is the empty document and
\* every other chunk has been processed and its slot holds its own result;
\* a raising chunk stops neither the loop nor the run.
C2_FailureFillsEmptySlot ==
    /\ Merging =>
          \A i \in Chunks :
              /\ fstate[i] = "FINISHED"
              /\ fexc[i] => chunk_results[i] = EmptyDict
              /\ ~fexc[i] => chunk_results[i] = ProcessSingleChunk(i)
    /\ \A i \in yielded : fexc[i] => chunk_results[i] = EmptyDict

\* the run has finished although several chunks raised, the first among them
C2_Witness ==
    /\ mainpc = "done"
    /\ 1 \in Failed
    /\ Cardinality(Failed) >= 2
    /\ Survivors # {}

\* C3: whenever the merge loop is running or over (in particular when it
\* reads its first slot), every slot of the result array has been written,
\* every future has been collected and no worker is running or queued.
C3_MergeAfterDispatch ==
    Merging =>
        /\ \A i \in Chunks : chunk_results[i] # NoneSlot
        /\ yielded = Chunks
        /\ InFlight = {}
        /\ \A i \in Chunks : fstate[i] = "FINISHED"

\* the merge loop is about to read slot 0 of a fully populated array that
\* holds both documents and failure placeholders
C3_Witness ==
    /\ mainpc = "merge"
    /\ merge_i = 1
    /\ \E i, j \in Chunks : chunk_results[i] = EmptyDict
                            /\ chunk_results[j] \notin {EmptyDict, NoneSlot}

\* C4: in every reachable state at most 5 chunks have an oracle call in
\* flight, whatever the number of chunks.
C4_AtMostFiveInFlight == Cardinality(InFlight) <= 5

\* five calls are in flight and a further chunk waits in the queue
C4_Witness ==
    /\ Cardinality(InFlight) = 5
    /\ \E i \in Chunks : fstate[i] = "PENDING"

-----------------------------------------------------------------------------
(* Properties of reconciliation *)

\* what processing chunk i produced in this run
Outcome(i) == IF fexc[i] THEN EmptyDict ELSE ProcessSingleChunk(i)
FinalRooms == master_json.m["rooms"].l
Summary == master_json.m["validation_summary"].m
Totals == {"grand_total_areas", "summary_for_dwelling"}

\* C5: the document the chunked path returns is a function of the rule
\* list and of the per-chunk outcomes taken in chunk-index order: whatever
\* the interleaving and completion order of the workers, it is the document
\* obtained by merging outcome 1, outcome 2, ... in that order.
C5_DocumentIndependentOfInterleaving ==
    mainpc = "done" =>
        master_json = Reconcile([i \in Chunks |-> Outcome(i)], rules)

\* a finished run over the largest number of chunks in which most chunks
\* succeeded, so that workers had to overlap and queue
C5_Witness ==
    /\ mainpc = "done"
    /\ total_chunks = MaxChunks
    /\ Cardinality(Survivors) >= MaxChunks - 1
    /\ Len(FinalRooms) = 3

\* the rooms chunk i emitted, and whether a room lists a line item
RoomsOf(i) == RoomsData(ProcessSingleChunk(i)).l
ItemsOf(room) == Get(room, "line_items", EmptyList).l
HasItem(room, item) == \E k \in 1..Len(ItemsOf(room)) : ItemsOf(room)[k] = item
KeysOf(i) == {RoomKey(RoomsOf(i)[k], 0) : k \in 1..Len(RoomsOf(i))}
FirstEmitter(key) == CHOOSE i \in Survivors :
                        key \in KeysOf(i) /\ \A j \in Survivors : key \in KeysOf(j) => i <= j

\* the (room key, rule) pairs some surviving chunk FLAGGED
Range(q) == {q[k] : k \in 1..Len(q)}
FlaggedIn(room) ==
    {v \in Range(Get(room, "rule_validations", EmptyList).l) :
        GetN(v, "status") = S(FLAGGED)}
SurvivorFlags ==
    UNION {UNION {{<<RoomKey(r, 0), RuleId(v)>> : v \in FlaggedIn(r)} :
                  r \in Range(RoomsOf(i))} : i \in Survivors}

RECURSIVE SurvivorSum(_, _)
\* one per-chunk summary counter added up over the chunks in T
SurvivorSum(counter, T) ==
    IF T = {} THEN 0
    ELSE LET i == CHOOSE x \in T : TRUE
             doc == ProcessSingleChunk(i)
         IN  (IF Has(doc, "validation_summary")
              THEN doc.m["validation_summary"].m[counter].n ELSE 0)
             + SurvivorSum(counter, T \ {i})

C7_ZeroCheckedWhateverTheRules ==
    (mainpc = "done" /\ Failed = Chunks) =>
        /\ FinalRooms = <<>>
        /\ Summary["total_rules_checked"] = Num(0)
        /\ Summary["critical_flags"] = Num(0)

\* C7 as amended: when every chunk failed, the run still returns: the
\* document is the initial master document, with an empty rooms list, zero
\* critical flags and status PASSED, and the number of rules checked is the
\* length of the rule list (zero only when no rule list was supplied).
C7_AllFailedDocument ==
    (mainpc = "done" /\ Failed = Chunks) =>
        /\ FinalRooms = <<>>
        /\ Summary["critical_flags"] = Num(0)
        /\ Summary["status"] = S(PASSED)
        /\ Summary["total_rules_checked"] = Num(Len(rules))
        /\ \A k \in DOMAIN MasterInit.m \ {"validation_summary"} :
              master_json.m[k] = MasterInit.m[k]

\* every chunk of a run with a rule list failed and the run has returned
C7_Witness ==
    /\ mainpc = "done"
    /\ Failed = Chunks
    /\ rules # <<>>
    /\ \A i \in Chunks : chunk_results[i] = EmptyDict

\* the values one totals object of a chunk gives to its keys
GivenTotals(chunk_data, field) ==
    IF Has(chunk_data, field) /\ IsDict(chunk_data.m[field])
    THEN chunk_data.m[field].m ELSE EmptyMap

\* C8 as stated: in no step of the run does a key of grand_total_areas or
\* summary_for_dwelling that holds a non-null value get another value.
C8_NonNullNeverOverwritten ==
    [][\A field \in Totals : \A k \in DOMAIN master_json.m[field].m :
           master_json.m[field].m[k] # Null =>
               /\ k \in DOMAIN master_json'.m[field].m
               /\ master_json'.m[field].m[k] = master_json.m[field].m[k]]_vars

\* C8 as amended: merging a chunk gives every key of grand_total_areas and
\* summary_for_dwelling for which the chunk has a non-null value that value,
\* also when the key already held a non-null value, and leaves every other
\* key as it was: a null never replaces a value and no key is removed.
C8_LaterNonNullReplaces ==
    [][mainpc = "merge" =>
          \A field \in Totals :
              LET old == master_json.m[field].m
                  new == master_json'.m[field].m
                  given == GivenTotals(chunk_results[merge_i], field)
                  taken == {k \in DOMAIN given : given[k] # Null}
              IN  /\ DOMAIN new = DOMAIN old \cup taken
                  /\ \A k \in DOMAIN new :
                        new[k] = IF k \in taken THEN given[k] ELSE old[k]]_vars

\* walls was 100 after chunk 1, chunk 2 replaced it by 120 and filled floor,
\* and the null of chunk 3 left it alone
C8_Witness ==
    /\ merge_i = 4
    /\ chunk_results[1] = DocA(1)
    /\ chunk_results[2] = DocB(2)
    /\ chunk_results[3] = DocC(3)
    /\ master_json.m["grand_total_areas"].m["walls"] = Num(120)
    /\ master_json.m["grand_total_areas"].m["floor"] = Num(50)

-----------------------------------------------------------------------------
(* _merge_and_deduplicate_rooms on its own, one loop iteration per step *)

Feature(type) == Dict([feature_type |-> S(type)])
FeatureDim(type, dims) == Dict([feature_type |-> S(type), dimensions_raw |-> S(dims)])
FeatureAct(type, dims, action) ==
    Dict([feature_type |-> S(type), dimensions_raw |-> S(dims),
          action_description |-> S(action)])

\* a line item carrying a field beyond its signature
ItemNoted(desc, qty, note) ==
    Dict([description |-> S(desc), quantity |-> Num(qty), note |-> S(note)])

RoomV(name, validations) ==
    Dict([name |-> S(name), rule_validations |-> List(validations)])
RoomF(name, features) ==
    Dict([name |-> S(name), architectural_features |-> List(features)])
RoomS(name, sub_areas) ==
    Dict([name |-> S(name), sub_areas |-> List(sub_areas)])

\* the rooms the room lists are drawn from
RoomPool ==
    { RoomV(Kitchen, <<>>),
      RoomV(Kitchen, <<Validation(R1, PASSED)>>),
      RoomV(KitchenLoud, <<Validation(R1, FLAGGED)>>),
      RoomV(Kitchen, <<ValidationD(R1Padded, FLAGGED, Paint)>>),
      RoomV(KitchenLoud, <<Validation(R1, PASSED), Validation(R2, PASSED)>>),
      RoomV(Kitchen, <<Validation(R2, FLAGGED), ValidationD(R1, PASSED, Floor)>>),
      RoomV(Kitchen, <<Validation(R1, PASSED), Validation(R1, FLAGGED)>>),
      RoomF(Kitchen, <<Feature(Door), FeatureDim(OpensIntoExterior, Dims3x8)>>),
      RoomF(Kitchen, <<FeatureDim(Door, Dims3x8)>>),
      RoomF(Kitchen, <<Feature(Door)>>),
      RoomF(KitchenLoud, <<FeatureDim(OpensIntoExterior, Dims3x8)>>),
      RoomF(KitchenLoud, <<FeatureAct(Window, Dims2x4, Hall), Feature(Window)>>),
      RoomS(Kitchen, <<Dict([name |-> S(Closet),
                             line_items |-> List(<<Item(Paint, 2)>>),
                             architectural_features |->
                                 List(<<Feature(Door),
                                        Feature(OpensIntoExterior)>>)])>>),
      RoomS(Kitchen, <<Dict([name |-> S(Closet),
                             items |-> List(<<Item(Paint, 2), Item(Floor, 1)>>)]),
                       Dict([line_items |-> List(<<Item(Floor, 1)>>)])>>),
      Dict([name |-> S(Kitchen), items |-> List(<<Item(Paint, 2)>>),
            dimensions |-> Dict([floor |-> Num(10), walls |-> Null])]),
      Dict([name |-> S(KitchenLoud),
            line_items |-> List(<<Item(Paint, 2), Item(Floor, 1)>>),
            dimensions |-> Dict([floor |-> Num(12), walls |-> Num(40)])]),
      Dict([name |-> S(Kitchen), grouping |-> S(Hall),
            line_items |-> List(<<Item(Paint, 2)>>)]),
      Dict([name |-> S(Unknown), line_items |-> List(<<Item(Floor, 1)>>)]),
      Dict([line_items |-> List(<<Item(Paint, 2)>>)]),
      RoomV(Bath, <<Validation(R1, FLAGGED)>>),
      Dict([name |-> S(UnnamedRoom1), line_items |-> List(<<Item(Paint, 2)>>)]),
      Dict([name |-> S(KitchenLoud), grouping |-> S(HallLoud),
            level |-> Num(2), line_items |-> List(<<Item(Floor, 1)>>)]),
      RoomS(Kitchen, <<Dict([name |-> S(Closet),
                             line_items |->
                                 List(<<ItemNoted(Paint, 2, Hall),
                                        Item(Floor, 1), Item(Floor, 1)>>)])>>),
      RoomF(Kitchen, <<FeatureDim(OpensIntoExterior, Dims2x4)>>),
      RoomF(Kitchen, <<Dict([feature_type |-> S(Window),
                             action_description |-> S(Bath)])>>),
      Dict([name |-> S(Kitchen), dimensions |-> S(Dims3x8)]),
      Dict([name |-> S(Kitchen), dimensions |-> EmptyDict]) }

RECURSIVE SeqsUpTo(_, _)
\* the sequences over S of length at most n
SeqsUpTo(set, n) ==
    IF n = 0 THEN {<<>>}
    ELSE LET shorter == SeqsUpTo(set, n - 1)
         IN  shorter \cup {Append(q, x) : q \in shorter, x \in set}

InitRooms ==
    /\ rooms \in SeqsUpTo(RoomPool, MaxRooms)
    /\ room_i = 1
    /\ unique_rooms = <<>>
    /\ result = <<>>
    /\ rpc = "loop"
    /\ total_chunks = MinChunks
    /\ rules = <<>>
    /\ submitted = 0
    /\ fstate = [i \in Chunks |-> "UNSUBMITTED"]
    /\ fexc = [i \in Chunks |-> FALSE]
    /\ yielded = {}
    /\ chunk_results = [i \in Chunks |-> NoneSlot]
    /\ mainpc = "rooms"
    /\ merge_i = 1
    /\ master_json = MasterInit
    /\ total_flags = 0
    /\ total_rules_checked = 0
    /\ TextIdle
    /\ ParseIdle

\* one iteration of "for room in rooms"
RoomLoop ==
    /\ rpc = "loop"
    /\ room_i <= Len(rooms)
    /\ unique_rooms' = RoomStep(unique_rooms, rooms[room_i])
    /\ room_i' = room_i + 1
    /\ UNCHANGED <<textVars, parseVars, total_chunks, rules, dispatchVars, mainpc,
                   mergeVars, rooms, result, rpc>>

\* result = list(unique_rooms.values()); return result
RoomReturn ==
    /\ rpc = "loop"
    /\ room_i > Len(rooms)
    /\ result' = Values(unique_rooms)
    /\ rpc' = "done"
    /\ UNCHANGED <<textVars, parseVars, total_chunks, rules, dispatchVars, mainpc,
                   mergeVars, rooms, room_i, unique_rooms>>

NextRooms == RoomLoop \/ RoomReturn

SpecRooms == InitRooms /\ [][NextRooms]_vars

-----------------------------------------------------------------------------
(* Properties of room deduplication *)

ValidationsOf(room) == Get(room, "rule_validations", EmptyList).l
IsFlagged(v) == GetN(v, "status") = S(FLAGGED)

\* C9: in every step of the fold over the rooms, an entry that is FLAGGED
\* keeps its place, its rule and its FLAGGED status, and when the incoming
\* room is a duplicate carrying a FLAGGED entry for a rule, the entry the
\* merged room holds for that rule is FLAGGED afterwards; so in the returned
\* rooms a rule that any of the duplicates FLAGGED has a FLAGGED entry,
\* in whichever order the duplicates came.
C9_ValidationUpgradeOnly ==
    /\ [][(rpc = "loop" /\ room_i <= Len(rooms)) =>
            /\ \A k \in 1..Len(unique_rooms) :
                  /\ unique_rooms'[k].key = unique_rooms[k].key
                  /\ \A n \in 1..Len(ValidationsOf(unique_rooms[k].room)) :
                        IsFlagged(ValidationsOf(unique_rooms[k].room)[n]) =>
                            /\ n <= Len(ValidationsOf(unique_rooms'[k].room))
                            /\ IsFlagged(ValidationsOf(unique_rooms'[k].room)[n])
                            /\ RuleId(ValidationsOf(unique_rooms'[k].room)[n])
                                  = RuleId(ValidationsOf(unique_rooms[k].room)[n])
            /\ \A k \in 1..Len(unique_rooms) :
                  unique_rooms[k].key = RoomKey(rooms[room_i], Len(unique_rooms)) =>
                      \A v \in Range(ValidationsOf(rooms[room_i])) :
                          (IsFlagged(v) /\ RuleId(v) # <<>>) =>
                              LET after == ValidationsOf(unique_rooms'[k].room)
                                  hits == {n \in 1..Len(after) :
                                              RuleId(after[n]) = RuleId(v)}
                              IN  hits # {} /\ IsFlagged(after[FirstIn(hits)])]_vars
    /\ [](rpc = "done" =>
            \A k \in 1..Len(rooms) : \A v \in Range(ValidationsOf(rooms[k])) :
                (IsFlagged(v) /\ RuleId(v) # <<>>) =>
                    \E q \in 1..Len(result) :
                        /\ RoomKey(result[q], 0) = RoomKey(rooms[k], 0)
                        /\ \E w \in Range(ValidationsOf(result[q])) :
                              RuleId(w) = RuleId(v) /\ IsFlagged(w))

\* a PASSED entry for R1 was followed by a duplicate room's FLAGGED entry
\* for R1 and the merged room's single R1 entry is FLAGGED
C9_Witness ==
    /\ rpc = "done"
    /\ rooms = <<RoomV(Kitchen, <<Validation(R1, PASSED)>>),
                 RoomV(KitchenLoud, <<Validation(R1, FLAGGED)>>)>>
    /\ Len(result) = 1
    /\ Len(ValidationsOf(result[1])) = 1
    /\ IsFlagged(ValidationsOf(result[1])[1])

\* C10: for every room list, merging the list concatenated with itself
\* returns the same rooms, with the same field values, as merging it once.
C10_DedupIdempotent ==
    rpc = "done" => MergeAndDeduplicateRooms(rooms \o rooms) = result

\* the items an input room brings: line_items, or items when that is empty
InputItems(room) ==
    Or(Or(GetN(room, "line_items"), GetN(room, "items")), EmptyList).l
\* a room whose key does not depend on how many rooms came before it
IsNamed(room) == RoomKey(room, 0) = RoomKey(room, 1)
InputSigs(key) ==
    UNION {{ItemSig(it) : it \in Range(InputItems(rooms[k]))} :
           k \in {n \in 1..Len(rooms) : RoomKey(rooms[n], 0) = key}}

\* C11: in the returned rooms, the line_items of every named room hold each
\* distinct line-item signature found in any input room with the same key
\* exactly once: their signatures are those of the inputs and their number
\* is the number of distinct signatures.
C11_LineItemsUnionOnce ==
    rpc = "done" =>
        \A q \in 1..Len(result) :
            IsNamed(result[q]) =>
                LET items == ItemsOf(result[q])
                    sigs == InputSigs(RoomKey(result[q], 0))
                IN  /\ {ItemSig(it) : it \in Range(items)} = sigs
                    /\ Len(items) = Cardinality(sigs)

FeaturesOf(room) == Get(room, "architectural_features", EmptyList).l
\* a Door without dimensions or action and the fragment that belongs to it,
\* in one room object and in two duplicate rooms
DoorAndFragmentTogether ==
    <<RoomF(Kitchen, <<Feature(Door), FeatureDim(OpensIntoExterior, Dims3x8)>>)>>
DoorThenFragment ==
    <<RoomF(Kitchen, <<Feature(Door)>>),
      RoomF(KitchenLoud, <<FeatureDim(OpensIntoExterior, Dims3x8)>>)>>

\* C12: a Door without dimensions or action followed by the fragment
\* 'Opens into Exterior' with dimensions 3' X 8' is returned as one room
\* with exactly one feature: type Door, dimensions 3' X 8' and the fragment's
\* original text as action description, whether both features came in one
\* room object or in two duplicate rooms.
C12_FragmentReassembled ==
    (rpc = "done" /\ rooms \in {DoorAndFragmentTogether, DoorThenFragment}) =>
        /\ Len(result) = 1
        /\ FeaturesOf(result[1]) = <<FeatureAct(Door, Dims3x8, OpensIntoExterior)>>

StartsWith(cs, prefix) ==
    Len(cs) >= Len(prefix) /\ SubSeq(cs, 1, Len(prefix)) = prefix
IsOpensInto(f) == StartsWith(FeatureType(f), opens_into)
SubAreasOf(room) == Get(room, "sub_areas", EmptyList).l

\* C13: in the returned rooms no architectural feature, at room level or
\* inside a sub-area, has a feature type that starts with 'opens into'
\* (case-insensitive), whatever the input rooms, also for rooms that occur
\* only once.
C13_NoOpensIntoFeatureType ==
    rpc = "done" =>
        \A q \in 1..Len(result) :
            /\ \A f \in Range(FeaturesOf(result[q])) : ~IsOpensInto(f)
            /\ \A sa \in Range(SubAreasOf(result[q])) :
                  \A f \in Range(FeaturesOf(sa)) : ~IsOpensInto(f)

-----------------------------------------------------------------------------
(* Properties of the validation summary *)

\* the validations with status FLAGGED in a list of rooms, by position
FlaggedCount(rs) ==
    Cardinality(UNION {{<<q, n>> : n \in {m \in 1..Len(ValidationsOf(rs[q])) :
                                              IsFlagged(ValidationsOf(rs[q])[m])}} :
                       q \in 1..Len(rs)})

\* C14 as stated: with a non-empty rule list, critical_flags is the number
\* of FLAGGED validations in the final rooms (0 when there is none, whatever
\* the chunks reported), total_rules_checked is len(rules) and status is
\* FLAGGED exactly when critical_flags > 0.
C14_FlagsFromFinalRoomsOnly ==
    (mainpc = "done" /\ rules # <<>>) =>
        /\ Summary["critical_flags"] = Num(FlaggedCount(FinalRooms))
        /\ Summary["total_rules_checked"] = Num(Len(rules))
        /\ Summary["status"] = S(FLAGGED) <=> Summary["critical_flags"].n > 0

\* C14 as amended: with a non-empty rule list, critical_flags is the number
\* of FLAGGED validations in the final rooms when that number is positive
\* and otherwise the sum of the critical_flags counters of the non-empty
\* chunks; total_rules_checked is len(rules); status is FLAGGED exactly
\* when critical_flags > 0 and PASSED otherwise.
C14_FlagsRecountedOrSummed ==
    (mainpc = "done" /\ rules # <<>>) =>
        /\ Summary["critical_flags"] =
              Num(IF FlaggedCount(FinalRooms) > 0 THEN FlaggedCount(FinalRooms)
                  ELSE SurvivorSum("critical_flags", Survivors))
        /\ Summary["total_rules_checked"] = Num(Len(rules))
        /\ Summary["status"] =
              S(IF Summary["critical_flags"].n > 0 THEN FLAGGED ELSE PASSED)

\* a run with a rule list whose final rooms hold one FLAGGED validation
\* while the chunks reported three flags between them
C14_Witness ==
    /\ mainpc = "done"
    /\ rules # <<>>
    /\ FlaggedCount(FinalRooms) = 1
    /\ SurvivorSum("critical_flags", Survivors) = 3
    /\ Summary["critical_flags"] = Num(1)

-----------------------------------------------------------------------------
(* _get_text_chunks: splitting the document into overlapping windows *)

MaxTextLen == 5
MaxWindow == 4

TextChars == {"a", "b"}

\* the document of the worked example: four windows long, letters alternating
ExampleText == [i \in 1..(4 * chunk_size) |-> IF i % 2 = 0 THEN "a" ELSE "b"]

Min(a, b) == IF a < b THEN a ELSE b

SliceToEnd(s, a, b) == SubSeq(s, a + 1, Len(s))
\* s[a:b] for 0 <= a, 0 <= b
Slice(s, a, b) == SubSeq(s, a + 1, Min(b, Len(s)))

AdvanceWholeWindow(size, lap) == size
\* chunk_size - overlap
Advance(size, lap) == size - lap

InitChunks ==
    /\ \/ /\ full_text \in SeqsUpTo(TextChars, MaxTextLen)
          /\ text_chunk_size \in 1..MaxWindow
          /\ text_overlap \in 0..(text_chunk_size - 1)
       \/ /\ full_text = ExampleText
          /\ text_chunk_size = chunk_size
          /\ text_overlap = overlap
    /\ start = 0
    /\ chunks = <<>>
    /\ tpc = "loop"
    /\ rooms = <<>>
    /\ room_i = 1
    /\ unique_rooms = <<>>
    /\ result = <<>>
    /\ rpc = "idle"
    /\ total_chunks = MinChunks
    /\ rules = <<>>
    /\ submitted = 0
    /\ fstate = [i \in Chunks |-> "UNSUBMITTED"]
    /\ fexc = [i \in Chunks |-> FALSE]
    /\ yielded = {}
    /\ chunk_results = [i \in Chunks |-> NoneSlot]
    /\ mainpc = "chunking"
    /\ merge_i = 1
    /\ master_json = MasterInit
    /\ total_flags = 0
    /\ total_rules_checked = 0
    /\ ParseIdle

\* one iteration of "while start < len(full_text)"
ChunkLoop ==
    /\ tpc = "loop"
    /\ start < Len(full_text)
    /\ LET end == start + text_chunk_size
           chunk == Slice(full_text, start, end)
       IN  chunks' = Append(chunks, chunk)
    /\ start' = start + Advance(text_chunk_size, text_overlap)
    /\ UNCHANGED <<full_text, text_chunk_size, text_overlap, tpc,
                   total_chunks, rules, dispatchVars, mainpc, mergeVars,
                   roomVars, parseVars>>

\* the loop condition fails: return chunks
ChunkReturn ==
    /\ tpc = "loop"
    /\ ~(start < Len(full_text))
    /\ tpc' = "done"
    /\ UNCHANGED <<full_text, text_chunk_size, text_overlap, start, chunks,
                   total_chunks, rules, dispatchVars, mainpc, mergeVars,
                   roomVars, parseVars>>

NextChunks == ChunkLoop \/ ChunkReturn

\* the splitter runs on one thread with nothing to wait for: it keeps stepping
SpecChunks == InitChunks /\ [][NextChunks]_vars /\ WF_vars(NextChunks)

-----------------------------------------------------------------------------
(* Properties of the splitter *)

CeilDiv(a, b) == (a + b - 1) \div b

RECURSIVE Concat(_)
Concat(qs) == IF qs = <<>> THEN <<>> ELSE Head(qs) \o Concat(Tail(qs))

\* the first step characters of every chunk but the last, then the last whole
Reassembled ==
    Concat([k \in 1..Len(chunks) |->
              IF k < Len(chunks)
              THEN Slice(chunks[k], 0, text_chunk_size - text_overlap)
              ELSE chunks[k]])

ChunksAreWindows ==
    LET step == text_chunk_size - text_overlap
    IN  /\ start = Len(chunks) * step
        /\ \A k \in 1..Len(chunks) :
              chunks[k] = Slice(full_text, (k - 1) * step,
                                (k - 1) * step + text_chunk_size)
        /\ tpc = "done" =>
              /\ Len(chunks) = CeilDiv(Len(full_text), step)
              /\ \A p \in 1..Len(full_text) : \E k \in 1..Len(chunks) :
                    /\ (k - 1) * step < p
                    /\ p <= (k - 1) * step + Len(chunks[k])
              /\ Reassembled = full_text

ExampleSplit ==
    (tpc = "done" /\ Len(full_text) = 60000
         /\ text_chunk_size = 15000 /\ text_overlap = 2000) =>
        /\ Len(chunks) = 5
        /\ \A k \in 1..5 :
              chunks[k] = Slice(full_text, 13000 * (k - 1),
                                13000 * (k - 1) + 15000)

\* C15: for chunk_size > overlap >= 0 the splitter terminates, chunk k is
\* full_text[k*step : k*step + chunk_size] for k below ceil(len/step), every
\* position lies in some chunk, the first step characters of each non-final
\* chunk followed by the final chunk give back the text, and 60,000
\* characters at 15000/2000 give 5 chunks starting every 13000.
C15_ChunksAreWindows ==
    /\ [](tpc # "idle" => (ChunksAreWindows /\ ExampleSplit))
    /\ <>(tpc = "done")

\* a text whose last window is cut short by the end of the text, with overlap
C15_Witness ==
    /\ tpc = "done"
    /\ text_overlap > 0
    /\ Len(chunks) >= 3
    /\ Len(chunks[Len(chunks)]) < text_chunk_size
    /\ ChunksAreWindows

\* the worked example has been split
C15_ExampleWitness ==
    /\ tpc = "done"
    /\ full_text = ExampleText
    /\ Len(chunks) = 5

-----------------------------------------------------------------------------
(* json.loads on a str: RFC 8259 values as the Python decoder reads them.  *)
(* Exponents, \u escapes, NaN and the Infinity literals are not decoded:   *)
(* no response text considered here contains them.                         *)

DecodeError == [ok |-> FALSE]
Decoded(v, p) == [ok |-> TRUE, v |-> v, p |-> p]

\* s[p] (1-based), "" beyond either end
At(s, p) == IF p >= 1 /\ p <= Len(s) THEN s[p] ELSE ""

DigitChars == {Digits[i] : i \in 1..10}
DigitVal(c) == CHOOSE k \in 0..9 : Digits[k + 1] = c

RECURSIVE NatOf(_)
\* int(cs) for a run of digits
NatOf(cs) == IF cs = <<>> THEN 0
             ELSE 10 * NatOf(SubSeq(cs, 1, Len(cs) - 1)) + DigitVal(cs[Len(cs)])

RECURSIVE Join(_)
\* the key a run of characters spells
Join(cs) == IF cs = <<>> THEN "" ELSE Head(cs) \o Join(Tail(cs))

RECURSIVE SkipWs(_, _)
\* the first position at or after p that holds no JSON whitespace
SkipWs(s, p) == IF At(s, p) \in Whitespace THEN SkipWs(s, p + 1) ELSE p

RECURSIVE DigitsEnd(_, _)
\* the first position at or after p that holds no digit
DigitsEnd(s, p) == IF At(s, p) \in DigitChars THEN DigitsEnd(s, p + 1) ELSE p

RECURSIVE DropTrailingZeros(_)
DropTrailingZeros(cs) ==
    IF cs # <<>> /\ cs[Len(cs)] = "0"
    THEN DropTrailingZeros(SubSeq(cs, 1, Len(cs) - 1))
    ELSE cs

\* s[p .. p + Len(lit) - 1] = lit
Matches(s, p, lit) ==
    /\ p + Len(lit) - 1 <= Len(s)
    /\ SubSeq(s, p, p + Len(lit) - 1) = lit

\* NUMBER_RE: -?(0|[1-9]\d*)(\.\d+)?
ParseNumber(s, p) ==
    LET neg == At(s, p) = "-"
        q == IF neg THEN p + 1 ELSE p
        wholeEnd == IF At(s, q) = "0" THEN q + 1 ELSE DigitsEnd(s, q)
        whole == NatOf(SubSeq(s, q, wholeEnd - 1))
        fracEnd == IF At(s, wholeEnd) = "." /\ At(s, wholeEnd + 1) \in DigitChars
                   THEN DigitsEnd(s, wholeEnd + 1)
                   ELSE wholeEnd
    IN  IF wholeEnd = q THEN DecodeError
        ELSE IF fracEnd = wholeEnd
        THEN Decoded(Num(IF neg THEN 0 - whole ELSE whole), wholeEnd)
        ELSE Decoded(Float(neg, whole,
                           DropTrailingZeros(SubSeq(s, wholeEnd + 1, fracEnd - 1))),
                     fracEnd)

\* the character an escape letter stands for ("" when it is no escape)
Unescaped(c) ==
    CASE c = "\"" -> "\""
      [] c = "\\" -> "\\"
      [] c = "/" -> "/"
      [] c = "n" -> "\n"
      [] c = "t" -> "\t"
      [] c = "r" -> "\r"
      [] c = "f" -> "\f"
      [] c = "b" -> "<BS>"
      [] OTHER -> ""

RECURSIVE ParseString(_, _, _)
\* scanstring from the position after the opening quote (strict mode)
ParseString(s, p, acc) ==
    LET c == At(s, p)
    IN  CASE c = "" -> DecodeError
          [] c = "\"" -> Decoded(acc, p + 1)
          [] c = "\\" ->
                IF Unescaped(At(s, p + 1)) = "" THEN DecodeError
                ELSE ParseString(s, p + 2, Append(acc, Unescaped(At(s, p + 1))))
          [] c \in {"\n", "\t", "\r"} -> DecodeError
          [] OTHER -> ParseString(s, p + 1, Append(acc, c))

RECURSIVE ParseValue(_, _)
RECURSIVE ParseMembers(_, _, _)
RECURSIVE ParseElements(_, _, _)

\* JSONObject after a key's opening quote at p has been seen
ParseMembers(s, p, acc) ==
    LET k == ParseString(s, p + 1, <<>>)
        colon == SkipWs(s, k.p)
        v == ParseValue(s, SkipWs(s, colon + 1))
        e == SkipWs(s, v.p)
        acc2 == Put(Dict(acc), Join(k.v), v.v).m
        n == SkipWs(s, e + 1)
    IN  IF ~k.ok THEN DecodeError
        ELSE IF At(s, colon) # ":" THEN DecodeError
        ELSE IF ~v.ok THEN DecodeError
        ELSE IF At(s, e) = "}" THEN Decoded(Dict(acc2), e + 1)
        ELSE IF At(s, e) = "," /\ At(s, n) = "\"" THEN ParseMembers(s, n, acc2)
        ELSE DecodeError

\* JSONArray at the first character of an element
ParseElements(s, p, acc) ==
    LET v == ParseValue(s, p)
        e == SkipWs(s, v.p)
        acc2 == Append(acc, v.v)
    IN  IF ~v.ok THEN DecodeError
        ELSE IF At(s, e) = "]" THEN Decoded(List(acc2), e + 1)
        ELSE IF At(s, e) = "," THEN ParseElements(s, SkipWs(s, e + 1), acc2)
        ELSE DecodeError

\* scan_once at p
ParseValue(s, p) ==
    LET c == At(s, p)
        q == SkipWs(s, p + 1)
        str == ParseString(s, p + 1, <<>>)
    IN  CASE c = "\"" -> IF str.ok THEN Decoded(Str(str.v), str.p) ELSE DecodeError
          [] c = "{" -> IF At(s, q) = "}" THEN Decoded(EmptyDict, q + 1)
                        ELSE IF At(s, q) = "\"" THEN ParseMembers(s, q, EmptyMap)
                        ELSE DecodeError
          [] c = "[" -> IF At(s, q) = "]" THEN Decoded(EmptyList, q + 1)
                        ELSE ParseElements(s, q, <<>>)
          [] c = "n" -> IF Matches(s, p, <<"n", "u", "l", "l">>)
                        THEN Decoded(Null, p + 4) ELSE DecodeError
          [] c = "t" -> IF Matches(s, p, <<"t", "r", "u", "e">>)
                        THEN Decoded(Bool(TRUE), p + 4) ELSE DecodeError
          [] c = "f" -> IF Matches(s, p, <<"f", "a", "l", "s", "e">>)
                        THEN Decoded(Bool(FALSE), p + 5) ELSE DecodeError
          [] OTHER -> ParseNumber(s, p)

\* json.loads(s): [ok |-> TRUE, v |-> value], or DecodeError for JSONDecodeError
Loads(s) ==
    LET v == ParseValue(s, SkipWs(s, 1))
    IN  IF v.ok /\ SkipWs(s, v.p) = Len(s) + 1
        THEN [ok |-> TRUE, v |-> v.v]
        ELSE DecodeError

-----------------------------------------------------------------------------
(* str methods, with Python's 0-based indices *)

Max(a, b) == IF a > b THEN a ELSE b

\* s[a:b] for any integers a, b
PySlice(s, a, b) ==
    LET lo == IF a < 0 THEN Max(a + Len(s), 0) ELSE a
        hi == IF b < 0 THEN Max(b + Len(s), 0) ELSE b
    IN  Slice(s, lo, hi)

\* s.find(needle, from), -1 when absent
Find(s, needle, from) ==
    LET hits == {i \in from..(Len(s) - Len(needle)) : Matches(s, i + 1, needle)}
    IN  IF hits = {} THEN 0 - 1 ELSE CHOOSE i \in hits : \A j \in hits : i <= j

\* s.rfind(c, lo, hi) for one character c, -1 when absent
RFind(s, c, lo, hi) ==
    LET hits == {i \in lo..(Min(hi, Len(s)) - 1) : s[i + 1] = c}
    IN  IF hits = {} THEN 0 - 1 ELSE CHOOSE i \in hits : \A j \in hits : i >= j

\* s.count(c)
Count(s, c) == Cardinality({i \in 1..Len(s) : s[i] = c})

RECURSIVE RStrip(_)
\* s.rstrip()
RStrip(s) == IF s # <<>> /\ s[Len(s)] \in Whitespace
             THEN RStrip(SubSeq(s, 1, Len(s) - 1)) ELSE s

RECURSIVE RStripChar(_, _)
\* s.rstrip(c)
RStripChar(s, c) == IF s # <<>> /\ s[Len(s)] = c
                    THEN RStripChar(SubSeq(s, 1, Len(s) - 1), c) ELSE s

\* s.endswith(c)
EndsWith(s, c) == s # <<>> /\ s[Len(s)] = c

\* c * k
Repeat(c, k) == [i \in 1..Max(0, k) |-> c]

-----------------------------------------------------------------------------
(* _try_fix_malformed_json.  Every pattern starts at a colon or a comma    *)
(* and holds that character once, so matches are decided per position;     *)
(* positions are 1-based and a match is named by the position after it     *)
(* (0: no match).                                                          *)

RECURSIVE RemoveCommaBefore(_, _, _)
\* re.sub(r',\s*}', '}', s) and re.sub(r',\s*]', ']', s), from position p
RemoveCommaBefore(s, p, closer) ==
    IF p > Len(s) THEN <<>>
    ELSE IF s[p] = "," /\ At(s, SkipWs(s, p + 1)) = closer
    THEN <<closer>> \o RemoveCommaBefore(s, SkipWs(s, p + 1) + 1, closer)
    ELSE <<s[p]>> \o RemoveCommaBefore(s, p + 1, closer)

RECURSIVE NumberRunEnd(_, _)
\* the first position at or after p that holds neither a digit nor a dot
NumberRunEnd(s, p) ==
    IF At(s, p) \in DigitChars \cup {"."} THEN NumberRunEnd(s, p + 1) ELSE p

\* :\s*([+-]?\d*\.?\d+)\s*([,}\]]) at the colon at position i
CompleteNumberEnd(s, i) ==
    LET a == SkipWs(s, i + 1)
        b == IF At(s, a) \in {"+", "-"} THEN a + 1 ELSE a
        r == NumberRunEnd(s, b)
        t == SkipWs(s, r)
    IN  IF /\ r > b
           /\ s[r - 1] \in DigitChars
           /\ Count(SubSeq(s, b, r - 1), ".") <= 1
           /\ At(s, t) \in {",", "}", "]"}
        THEN t + 1 ELSE 0

\* match.end() of the last match of finditer, -1 when there is none
LastCompletePos(s) ==
    LET ends == {CompleteNumberEnd(s, i) - 1 :
                   i \in {j \in 1..Len(s) : s[j] = ":"}} \ {0 - 1}
    IN  IF ends = {} THEN 0 - 1 ELSE CHOOSE e \in ends : \A d \in ends : e >= d

\* \s*$ under re.MULTILINE from position p: greedy whitespace, given back
\* until the position is the end of the text or stands before a newline
WsThenLineEnd(s, p) ==
    LET w == SkipWs(s, p)
        breaks == {e \in p..(w - 1) : s[e] = "\n"}
    IN  IF w = Len(s) + 1 THEN w
        ELSE IF breaks = {} THEN 0
        ELSE CHOOSE e \in breaks : \A d \in breaks : e >= d

RECURSIVE LazyThenLineEnd(_, _)
\* [^"]*?\s*$ from position p
LazyThenLineEnd(s, p) ==
    IF WsThenLineEnd(s, p) > 0 THEN WsThenLineEnd(s, p)
    ELSE IF p <= Len(s) /\ s[p] # "\"" THEN LazyThenLineEnd(s, p + 1)
    ELSE 0

\* the four patterns replaced by ': null', tried at the colon at position i
DanglingEnd(kind, s, i) ==
    LET a == SkipWs(s, i + 1)
        d == DigitsEnd(s, a)
        b == IF At(s, a) \in {"+", "-"} THEN a + 1 ELSE a
        d1 == DigitsEnd(s, b)
        r == IF At(s, d1) = "." THEN DigitsEnd(s, d1 + 1) ELSE d1
        c == SkipWs(s, r)
    IN  CASE kind = "digits_dot" ->     \* :\s*(\d+\.)\s*$
               IF d > a /\ At(s, d) = "." THEN WsThenLineEnd(s, d + 1) ELSE 0
          [] kind = "digits" ->         \* :\s*(\d+)\s*$
               IF d > a THEN WsThenLineEnd(s, d) ELSE 0
          [] kind = "open_string" ->    \* :\s*"([^"]*?)\s*$
               IF At(s, a) = "\"" THEN LazyThenLineEnd(s, a + 1) ELSE 0
          [] kind = "number_comma" ->   \* :\s*([+-]?\d*\.?\d*)\s*,\s*$
               IF At(s, c) = "," THEN WsThenLineEnd(s, c + 1) ELSE 0

RECURSIVE NullDangling(_, _, _)
\* re.sub(pattern, ': null', s, flags=re.MULTILINE), from position p
NullDangling(kind, s, p) ==
    IF p > Len(s) THEN <<>>
    ELSE IF s[p] = ":" /\ DanglingEnd(kind, s, p) > 0
    THEN <<":", " ", "n", "u", "l", "l">>
             \o NullDangling(kind, s, DanglingEnd(kind, s, p))
    ELSE <<s[p]>> \o NullDangling(kind, s, p + 1)

\* the text cut after its last complete number, without a trailing comma
CutAfterLastNumber(s) ==
    Bind([last \in {LastCompletePos(s)} |->
        IF last > 0
        THEN Bind([stripped \in {RStrip(SubSeq(s, 1, last))} |->
                 IF EndsWith(stripped, ",")
                 THEN SubSeq(stripped, 1, Len(stripped) - 1)
                 ELSE SubSeq(s, 1, last)])
        ELSE s])

\* the closing brackets and braces the counts say are missing
Closers(s) ==
    Repeat("]", Count(s, "[") - Count(s, "]"))
        \o Repeat("}", Count(s, "{") - Count(s, "}"))

\* closing brackets and braces appended when some are missing
CloseOpen(s) ==
    IF Count(s, "{") > Count(s, "}") \/ Count(s, "[") > Count(s, "]")
    THEN RStripChar(RStrip(s), ",") \o Closers(s)
    ELSE s

search_window == 500

\* the last key/value pair removed and the rest closed; Null when that fails
DropLastPair(s) ==
    Bind([last_complete \in {Max(RFind(s, "}", 0, Len(s)), RFind(s, "]", 0, Len(s)))} |->
    Bind([search_start \in {Max(0, last_complete - search_window)} |->
    Bind([last_colon \in {RFind(s, ":", search_start, last_complete)} |->
    Bind([key_start \in {RFind(s, "\"", search_start, last_colon)} |->
        IF last_complete > 0 /\ last_colon > 0 /\ key_start > 0
        THEN Bind([cut \in {RStripChar(RStrip(PySlice(s, 0, key_start)), ",")} |->
             Bind([prefix \in {cut \o Closers(cut)} |->
                 IF Loads(prefix).ok THEN Str(prefix) ELSE Null])])
        ELSE Null])])])])

\* _try_fix_malformed_json(json_str, is_truncated): Str(fixed) or Null (None)
TryFixMalformedJson(json_str, is_trunc) ==
    IF json_str = <<>> \/ At(Strip(json_str), 1) # "{" THEN Null
    ELSE
    Bind([f1 \in {RemoveCommaBefore(json_str, 1, "}")} |->
    Bind([f2 \in {RemoveCommaBefore(f1, 1, "]")} |->
    Bind([f3 \in {IF is_trunc THEN CutAfterLastNumber(f2) ELSE f2} |->
    Bind([f4 \in {NullDangling("digits_dot", f3, 1)} |->
    Bind([f5 \in {NullDangling("digits", f4, 1)} |->
    Bind([f6 \in {NullDangling("open_string", f5, 1)} |->
    Bind([f7 \in {NullDangling("number_comma", f6, 1)} |->
    Bind([fixed \in {IF is_trunc THEN CloseOpen(f7) ELSE f7} |->
        IF Loads(fixed).ok THEN Str(fixed)
        ELSE IF is_trunc THEN DropLastPair(fixed)
        ELSE Null])])])])])])])])

-----------------------------------------------------------------------------
(* _parse_json_response: the strategies, each as what it returns *)

\* the grave accent U+0060, a character the lexer of TLA+ takes in no string
Backtick == "<grave>"
fence_json == <<Backtick, Backtick, Backtick, "j", "s", "o", "n">>
fence == <<Backtick, Backtick, Backtick>>
file_name == <<"f", ".", "p", "d", "f">>

fallback_warning ==
    <<"C","o","u","l","d"," ","n","o","t"," ","p","a","r","s","e"," ","s",
      "t","r","u","c","t","u","r","e","d"," ","J","S","O","N"," ","r","e",
      "s","p","o","n","s","e"," ","-"," ","w","i","l","l"," ","a","t","t",
      "e","m","p","t"," ","p","a","r","s","i","n","g"," ","i","n"," ","p",
      "o","s","t","-","p","r","o","c","e","s","s","i","n","g">>

\* the outcome of a strategy: a returned value, or falling through
Returned(v) == [ret |-> TRUE, v |-> v]
FellThrough == [ret |-> FALSE]

\* return json.loads(text), JSONDecodeError caught
LoadsOrFallThrough(text) ==
    Bind([r \in {Loads(text)} |-> IF r.ok THEN Returned(r.v) ELSE FellThrough])

\* Strategy 1: direct parse
DirectParse(rc) == LoadsOrFallThrough(rc)

\* the text between an opening fence ending at start and the next fence
Fenced(rc, start_) ==
    Bind([end \in {Find(rc, fence, start_)} |->
        IF end > start_
        THEN Bind([inner \in {Strip(PySlice(rc, start_, end))} |->
                 LoadsOrFallThrough(inner)])
        ELSE FellThrough])

\* Strategy 2: markdown code block
FencedParse(rc) ==
    Bind([start_ \in {IF Contains(rc, fence_json) THEN Find(rc, fence_json, 0) + 7
         ELSE IF Contains(rc, fence) THEN Find(rc, fence, 0) + 3
         ELSE 0 - 1} |-> IF start_ >= 0 THEN Fenced(rc, start_) ELSE FellThrough])

\* looks_truncated of strategy 3b
LooksTruncated(rc) ==
    \/ EndsWith(RStrip(rc), ".")
    \/ EndsWith(RStrip(rc), ",")
    \/ ~EndsWith(RStrip(rc), "}")
    \/ Count(rc, "{") # Count(rc, "}")

\* strategy 3 has a first and a later closing brace to parse between
HasBoundaries(rc) ==
    /\ Find(rc, <<"{">>, 0) >= 0
    /\ RFind(rc, "}", 0, Len(rc)) > Find(rc, <<"{">>, 0)

\* the text strategies 3 and 3b work on: first brace to last closing brace
Bounded(rc) ==
    PySlice(rc, Find(rc, <<"{">>, 0), RFind(rc, "}", 0, Len(rc)) + 1)

\* the text from the first brace to the end
FromFirstBrace(rc) == PySlice(rc, Find(rc, <<"{">>, 0), Len(rc))

\* Strategy 3b: repair of the whole tail, then of the bounded text;
\* out is the outcome, calls the is_truncated argument of each repair call
Repair(rc) ==
    Bind([looks_truncated \in {LooksTruncated(rc)} |->
    Bind([fixed_json \in {TryFixMalformedJson(FromFirstBrace(rc), looks_truncated)} |->
        IF Truthy(fixed_json)
        THEN [out |-> LoadsOrFallThrough(fixed_json.s),
              calls |-> <<looks_truncated>>]
        ELSE Bind([fixed_again \in {TryFixMalformedJson(Bounded(rc), looks_truncated)} |->
                 [out |-> IF Truthy(fixed_again)
                          THEN LoadsOrFallThrough(fixed_again.s)
                          ELSE FellThrough,
                  calls |-> <<looks_truncated, looks_truncated>>]])])])

\* Strategy 3: JSON object boundaries, with strategy 3b in its handler
BoundaryOutcome(rc) ==
    IF ~HasBoundaries(rc) THEN [out |-> FellThrough, calls |-> <<>>]
    ELSE Bind([r \in {Loads(Bounded(rc))} |->
             IF r.ok THEN [out |-> Returned(r.v), calls |-> <<>>]
             ELSE Repair(rc)])

\* Strategy 4: clean and retry
CleanedParse(rc) ==
    Bind([cleaned \in {Bounded(rc)} |->
        IF cleaned # <<>> THEN LoadsOrFallThrough(cleaned) ELSE FellThrough])

\* the fallback structure with the raw response
FallbackEnvelope(rc) ==
    Dict([structured_content |-> Dict([processed_text |-> Str(rc)]),
          validation |-> Dict([is_valid |-> Bool(TRUE),
                               violations |-> EmptyList,
                               warnings |-> List(<<Str(fallback_warning)>>)]),
          metadata |-> Dict([source_file |-> Str(file_name)])])

RECURSIVE ParseNestedJsonStrings(_)
ParseNestedJsonStringsOnce(obj) ==
    CASE IsStr(obj) ->
            IF At(Strip(obj.s), 1) \in {"{", "["}
            THEN Bind([r \in {Loads(obj.s)} |-> IF r.ok THEN r.v ELSE obj])
            ELSE obj
      [] IsDict(obj) ->
            Dict([k \in DOMAIN obj.m |-> ParseNestedJsonStrings(obj.m[k])])
      [] IsList(obj) ->
            List([i \in 1..Len(obj.l) |-> ParseNestedJsonStrings(obj.l[i])])
      [] OTHER -> obj

\* _parse_nested_json_strings(obj)
ParseNestedJsonStrings(obj) ==
    CASE IsStr(obj) ->
            IF At(Strip(obj.s), 1) \in {"{", "["}
            THEN Bind([r \in {Loads(obj.s)} |->
                     IF r.ok THEN ParseNestedJsonStrings(r.v) ELSE obj])
            ELSE obj
      [] IsDict(obj) ->
            Dict([k \in DOMAIN obj.m |-> ParseNestedJsonStrings(obj.m[k])])
      [] IsList(obj) ->
            List([i \in 1..Len(obj.l) |-> ParseNestedJsonStrings(obj.l[i])])
      [] OTHER -> obj

-----------------------------------------------------------------------------
(* One worker parsing the response of its chunk while the other chunks     *)
(* are collected; then either the chunked path (collect, merge loop, end   *)
(* of run, post-processing) or the single-document path (post-processing   *)
(* of the parsed value).  Responses arrive stripped.                       *)

\* {"a": 1}
DirectObject ==
    <<"{","\"","a","\"",":"," ","1","}">>

\* [1]
DirectArray ==
    <<"[","1","]">>

\* 1
DirectNumber ==
    <<"1">>

\* 0
DirectZero ==
    <<"0">>

\* null
DirectNull ==
    <<"n","u","l","l">>

\* []
DirectEmptyArray ==
    <<"[","]">>

\* {}
DirectEmptyObject ==
    <<"{","}">>

\* "[\\"[1]\\"]"
DirectString ==
    <<"\"","[","\\","\"","[","1","]","\\","\"","]","\"">>

\* (fence)json\n{"a": 1}\n(fence)
FencedObject ==
    <<Backtick,Backtick,Backtick,"j","s","o","n","\n","{","\"","a","\"",":",
      " ","1","}","\n",Backtick,Backtick,Backtick>>

\* (fence)\n[1]\n(fence)
FencedArray ==
    <<Backtick,Backtick,Backtick,"\n","[","1","]","\n",Backtick,Backtick,
      Backtick>>

\* (fence)json\n{"a": 1}
FencedUnclosed ==
    <<Backtick,Backtick,Backtick,"j","s","o","n","\n","{","\"","a","\"",":",
      " ","1","}">>

\* so {"a": 1} ok
EmbeddedObject ==
    <<"s","o"," ","{","\"","a","\"",":"," ","1","}"," ","o","k">>

\* {"a": 1,}
TrailingComma ==
    <<"{","\"","a","\"",":"," ","1",",","}">>

\* {"a": {"b": 1
TruncatedOpen ==
    <<"{","\"","a","\"",":"," ","{","\"","b","\"",":"," ","1">>

\* {"a": {"b": 1}, "c": "x
TruncatedAfterBrace ==
    <<"{","\"","a","\"",":"," ","{","\"","b","\"",":"," ","1","}",","," ",
      "\"","c","\"",":"," ","\"","x">>

\* {"a": [1, 2], "b": [3,
TruncatedAfterBracket ==
    <<"{","\"","a","\"",":"," ","[","1",","," ","2","]",","," ","\"","b",
      "\"",":"," ","[","3",",">>

\* {"a": 1, "b": }
MissingValue ==
    <<"{","\"","a","\"",":"," ","1",","," ","\"","b","\"",":"," ","}">>

\* {"a": 1 "b": 2}
MissingComma ==
    <<"{","\"","a","\"",":"," ","1"," ","\"","b","\"",":"," ","2","}">>

\* {"a": 1,} x
TrailingText ==
    <<"{","\"","a","\"",":"," ","1",",","}"," ","x">>

\* {"a": "x",} y
TrailingTextString ==
    <<"{","\"","a","\"",":"," ","\"","x","\"",",","}"," ","y">>

\* {"a": 1, "b": 2.\n}
DanglingNumberLine ==
    <<"{","\"","a","\"",":"," ","1",","," ","\"","b","\"",":"," ","2",".",
      "\n","}">>

\* {"a": 1,\n"b": 2}
DanglingCommaLine ==
    <<"{","\"","a","\"",":"," ","1",",","\n","\"","b","\"",":"," ","2","}">>

\* no data
PlainText ==
    <<"n","o"," ","d","a","t","a">>

\* {"a": "[1]", "b": " {x"}
StringifiedValue ==
    <<"{","\"","a","\"",":"," ","\"","[","1","]","\"",","," ","\"","b","\"",
      ":"," ","\""," ","{","x","\"","}">>

\* ["{\\"a\\": \\"[1]\\"}"]
StringifiedTwice ==
    <<"[","\"","{","\\","\"","a","\\","\"",":"," ","\\","\"","[","1","]",
      "\\","\"","}","\"","]">>

\* {"rooms": [{"name": "a"}]}
DocumentRooms ==
    <<"{","\"","r","o","o","m","s","\"",":"," ","[","{","\"","n","a","m",
      "e","\"",":"," ","\"","a","\"","}","]","}">>

\* {"rooms": "[{\\"name\\": \\"a\\"}]"}
StringifiedRooms ==
    <<"{","\"","r","o","o","m","s","\"",":"," ","\"","[","{","\\","\"","n",
      "a","m","e","\\","\"",":"," ","\\","\"","a","\\","\"","}","]","\"","}">>

\* {"document_metadata": "{\\"a\\": 1}"}
DocumentMetadata ==
    <<"{","\"","d","o","c","u","m","e","n","t","_","m","e","t","a","d","a",
      "t","a","\"",":"," ","\"","{","\\","\"","a","\\","\"",":"," ","1","}",
      "\"","}">>

ResponsePool ==
    {DirectObject, DirectArray, DirectNumber, DirectZero,
     DirectNull, DirectEmptyArray, DirectEmptyObject, DirectString,
     FencedObject, FencedArray, FencedUnclosed, EmbeddedObject,
     TrailingComma, TruncatedOpen, TruncatedAfterBrace, TruncatedAfterBracket,
     MissingValue, MissingComma, TrailingText, TrailingTextString,
     DanglingNumberLine, DanglingCommaLine, PlainText, StringifiedValue,
     StringifiedTwice, DocumentRooms, StringifiedRooms, DocumentMetadata}

InitParse ==
    /\ response_content \in ResponsePool
    /\ is_truncated \in BOOLEAN
    /\ chunk_number \in 1..MinChunks
    /\ fix_calls = <<>>
    /\ parsed = NoneSlot
    /\ structured_data = NoneSlot
    /\ ppc = "direct"
    /\ total_chunks = MinChunks
    /\ rules \in RuleLists
    /\ submitted = MinChunks
    /\ fstate = [i \in Chunks |-> IF i = chunk_number THEN "CALL1" ELSE "FINISHED"]
    /\ fexc = [i \in Chunks |-> FALSE]
    /\ yielded = Chunks \ {chunk_number}
    /\ chunk_results = [i \in Chunks |-> IF i = chunk_number THEN NoneSlot
                                         ELSE CollectedValue(i)]
    /\ mainpc = "as_completed"
    /\ merge_i = 1
    /\ master_json = MasterInit
    /\ total_flags = 0
    /\ total_rules_checked = 0
    /\ rooms = <<>>
    /\ room_i = 1
    /\ unique_rooms = <<>>
    /\ result = <<>>
    /\ rpc = "idle"
    /\ TextIdle

\* a strategy at position here returns its value or hands over to next
Try(here, outcome, next) ==
    /\ ppc = here
    /\ IF outcome.ret
       THEN parsed' = outcome.v /\ ppc' = "returned"
       ELSE parsed' = parsed /\ ppc' = next
    /\ UNCHANGED <<response_content, is_truncated, chunk_number,
                   structured_data, textVars, total_chunks, rules,
                   dispatchVars, mainpc, mergeVars, roomVars>>

\* Strategy 1
TryDirect ==
    /\ Try("direct", DirectParse(response_content), "fenced")
    /\ UNCHANGED fix_calls

\* Strategy 2
TryFenced ==
    /\ Try("fenced", FencedParse(response_content), "boundaries")
    /\ UNCHANGED fix_calls

\* Strategy 3 with strategy 3b in its except branch
TryBoundaries ==
    \E o \in {BoundaryOutcome(response_content)} :
        /\ Try("boundaries", o.out, "cleaned")
        /\ fix_calls' = o.calls

\* Strategy 4
TryCleaned ==
    /\ Try("cleaned", CleanedParse(response_content), "fallback")
    /\ UNCHANGED fix_calls

\* every strategy fell through
ReturnFallback ==
    /\ Try("fallback", Returned(FallbackEnvelope(response_content)), "fallback")
    /\ UNCHANGED fix_calls

\* the worker returns chunk_data and as_completed yields its future, the last
CollectParsed ==
    /\ ppc = "returned"
    /\ mainpc = "as_completed"
    /\ fstate' = [fstate EXCEPT ![chunk_number] = "FINISHED"]
    /\ yielded' = yielded \cup {chunk_number}
    /\ chunk_results' = [chunk_results EXCEPT ![SlotOf(chunk_number)] = parsed]
    /\ mainpc' = "merge"
    /\ ppc' = "collected"
    /\ UNCHANGED <<response_content, is_truncated, chunk_number, fix_calls,
                   parsed, structured_data, textVars, total_chunks, rules,
                   submitted, fexc, mergeVars, roomVars>>

\* the merge loop meets a chunk that is neither empty nor a dict: the first
\* chunk_data.get raises AttributeError out of _process_with_chunking
MergeRaise ==
    /\ mainpc = "merge"
    /\ merge_i <= total_chunks
    /\ ~Mergeable(chunk_results[merge_i])
    /\ mainpc' = "raised"
    /\ UNCHANGED <<textVars, parseVars, total_chunks, rules, dispatchVars,
                   mergeVars, roomVars>>

\* single-document path: _post_process_response on the parsed value
PostProcess ==
    /\ ppc = "returned"
    /\ structured_data' = ParseNestedJsonStrings(parsed)
    /\ ppc' = "post"
    /\ UNCHANGED <<response_content, is_truncated, chunk_number, fix_calls,
                   parsed, textVars, total_chunks, rules, dispatchVars,
                   mainpc, mergeVars, roomVars>>

\* chunked path: _post_process_response on the reconciled document
PostProcessDocument ==
    /\ ppc = "collected"
    /\ mainpc = "done"
    /\ structured_data' = ParseNestedJsonStrings(master_json)
    /\ ppc' = "post"
    /\ UNCHANGED <<response_content, is_truncated, chunk_number, fix_calls,
                   parsed, textVars, total_chunks, rules, dispatchVars,
                   mainpc, mergeVars, roomVars>>

NextParse ==
    \/ TryDirect
    \/ TryFenced
    \/ TryBoundaries
    \/ TryCleaned
    \/ ReturnFallback
    \/ CollectParsed
    \/ MergeChunk
    \/ MergeRaise
    \/ Finish
    \/ PostProcess
    \/ PostProcessDocument

SpecParse == InitParse /\ [][NextParse]_vars

\* ---------------------------------------------------------------------
\* Properties of the parser (SpecParse)

\* the parser has returned its value to its caller
ParserReturned == ppc \in {"returned", "collected", "post"}

\* C16: for every raw response the parser returns a map-shaped partial
\* document (never an array or a scalar) and the reconciliation that
\* consumes the returned value does not raise.
C16_ParserReturnsConsumableMap ==
    /\ ParserReturned => IsDict(parsed)
    /\ mainpc # "raised"

\* the object {"a": {"b": 1}}
RepairedOpen == Dict("a" :> Dict("b" :> Num(1)))

\* C17: the strategies run in order and structural repair is reached
\* whenever the direct, the fenced and the brace-to-brace parse have all
\* failed, before the fallback envelope is returned; the truncated object
\* {"a": {"b": 1 comes back as {"a": {"b": 1}}, not as the envelope.
C17_RepairBeforeFallback ==
    /\ ppc \in {"direct", "fenced", "boundaries"} => fix_calls = <<>>
    /\ ppc \in {"cleaned", "fallback"} => fix_calls # <<>>
    /\ (ParserReturned /\ response_content = TruncatedOpen)
           => parsed = RepairedOpen

\* some string held anywhere in the value v contains text
RECURSIVE Mentions(_, _)
Mentions(v, text) ==
    CASE IsStr(v) -> Find(v.s, text, 0) >= 0
      [] IsDict(v) -> \E k \in DOMAIN v.m : Mentions(v.m[k], text)
      [] IsList(v) -> \E i \in 1..Len(v.l) : Mentions(v.l[i], text)
      [] OTHER -> FALSE

\* the document shows the unparsed response of the chunk or its warning
CarriesTrace(document) ==
    \/ Mentions(document, response_content)
    \/ Mentions(document, fallback_warning)

\* every strategy failed for the chunk and the envelope was returned
FellBack == ParserReturned /\ parsed = FallbackEnvelope(response_content)

\* C18: when every strategy fails for a chunk the fallback envelope is
\* not silently dropped: after reconciliation the canonical document
\* still carries the unparsed response of the chunk or its warning.
C18_FallbackVisible ==
    (FellBack /\ mainpc = "done") =>
        /\ CarriesTrace(master_json)
        /\ ppc = "post" => CarriesTrace(structured_data)

\* no string left in v starts with a brace or a bracket and parses as JSON
RECURSIVE NoParsableString(_)
NoParsableString(v) ==
    CASE IsStr(v) -> ~(At(Strip(v.s), 1) \in {"{", "["} /\ Loads(v.s).ok)
      [] IsDict(v) -> \A k \in DOMAIN v.m : NoParsableString(v.m[k])
      [] IsList(v) -> \A i \in 1..Len(v.l) : NoParsableString(v.l[i])
      [] OTHER -> TRUE

\* C19: recursive unwrapping of JSON-stringified values is idempotent:
\* unwrapping an unwrapped value gives the same value, and after one
\* application no remaining string that starts with a brace or a bracket
\* still parses as JSON.
C19_UnwrapIdempotent ==
    ppc = "post" =>
        /\ ParseNestedJsonStrings(structured_data) = structured_data
        /\ NoParsableString(structured_data)

\* a list holding a stringified object that holds a stringified list was
\* unwrapped through both levels
C19_Witness ==
    /\ ppc = "post"
    /\ response_content = StringifiedTwice
    /\ parsed # structured_data
    /\ structured_data = List(<<Dict("a" :> List(<<Num(1)>>))>>)

\* C20: the truncation indicator returned by the model call is what the
\* parser hands to structural repair: every call of the repair step gets
\* is_truncated, so repair runs in truncation mode when the call reported
\* truncation.
C20_RepairGetsIndicator ==
    \A i \in 1..Len(fix_calls) : fix_calls[i] = is_truncated

-----------------------------------------------------------------------------
(* Properties of room identity and of the duplicate-room merge steps *)

\* the lowercased trimmed name of a room, "Unknown" when the room has none
NormalName(room) == Lower(Strip(PyStr(Get(room, "name", S(Unknown)))))

\* the room has an empty or "unknown" name
IsUnnamed(room) == NormalName(room) = <<>> \/ NormalName(room) = unknown

\* the identity of input room i: a named room has its name, with "::" and
\* its grouping when it has one; an unnamed room has a key of its own
Identity(i) ==
    LET room == rooms[i]
        grouping == IF Truthy(GetN(room, "grouping"))
                    THEN Lower(Strip(PyStr(GetN(room, "grouping"))))
                    ELSE <<>>
    IN  IF IsUnnamed(room) THEN <<"unnamed", i>>
        ELSE IF grouping # <<>>
             THEN <<"named", NormalName(room) \o <<":", ":">> \o grouping>>
             ELSE <<"named", NormalName(room)>>

\* the input rooms that are the first of their identity
Firsts == {i \in 1..Len(rooms) : \A j \in 1..(i - 1) : Identity(j) # Identity(i)}

\* the position in the output that the first occurrence i is due
Rank(i) == Cardinality({j \in Firsts : j <= i})

IsScalar(v) == IsNull(v) \/ IsStr(v) \/ IsNum(v) \/ IsBool(v) \/ IsFloat(v)

\* C21: after deduplication the output holds exactly one room per distinct
\* identity key of the input, in the order of first occurrence, and each
\* keeps the name, the grouping and the other scalar fields of the first
\* occurrence (dimensions has its own merge step and is left out here).
C21_OneRoomPerKeyInOrder ==
    rpc = "done" =>
        /\ Len(result) = Cardinality(Firsts)
        /\ \A i \in Firsts :
              Rank(i) <= Len(result) =>
                  \A f \in DOMAIN rooms[i].m \ {"dimensions"} :
                      IsScalar(rooms[i].m[f]) =>
                          /\ Has(result[Rank(i)], f)
                          /\ result[Rank(i)].m[f] = rooms[i].m[f]

\* C28: a room whose name is empty or "unknown" is never merged with any
\* other room: it appears in the output as an entry of its own, whatever
\* rooms precede or follow it, rooms named unnamed_room_N included.
C28_UnnamedNeverMerged ==
    rpc = "done" =>
        \A i \in 1..Len(rooms) :
            IsUnnamed(rooms[i]) =>
                /\ Rank(i) <= Len(result)
                /\ result[Rank(i)] = SeedRoom(rooms[i])

SubItemsOf(sa) == Get(sa, "line_items", EmptyList).l

\* the items a merge step appended to a sub-area that existed before it
AppendedSubItems(old, new) == SubSeq(new, Len(old) + 1, Len(new))

\* C22: when a duplicate room is merged, the line items of a matched
\* sub-area grow by the signature rule of room line items: no appended
\* item repeats the (description, quantity) signature of an item the
\* sub-area already held, and no two appended items share a signature.
C22_SubAreaItemsBySignature ==
    [][\A k \in 1..Len(unique_rooms) :
         \A t \in 1..Len(SubAreasOf(unique_rooms[k].room)) :
           \A old \in {SubItemsOf(SubAreasOf(unique_rooms[k].room)[t])} :
             \A app \in {AppendedSubItems(old,
                             SubItemsOf(SubAreasOf(unique_rooms'[k].room)[t]))} :
               /\ \A a \in 1..Len(app) : \A b \in 1..Len(old) :
                     ItemSig(app[a]) # ItemSig(old[b])
               /\ \A a, b \in 1..Len(app) :
                     a # b => ItemSig(app[a]) # ItemSig(app[b])]_vars

\* the items of an incoming sub-area, as the merge reads them
IncomingSubItems(sa) ==
    Or(Get(sa, "line_items", EmptyList), Get(sa, "items", EmptyList)).l

\* some returned room has a sub-area of that name which holds the item
Reachable(sa_name, item) ==
    \E k \in 1..Len(result) :
        \E t \in 1..Len(SubAreasOf(result[k])) :
            /\ SubName(SubAreasOf(result[k])[t]) = sa_name
            /\ \E f \in {"line_items", "items"} :
                   item \in Range(Get(SubAreasOf(result[k])[t], f, EmptyList).l)

\* C23: no sub-area is lost when duplicate rooms are merged: every line item
\* of every sub-area of every input room, sub-areas with an empty or missing
\* name included, is held by a sub-area of that name in the returned rooms.
C23_NoSubAreaLost ==
    rpc = "done" =>
        \A i \in 1..Len(rooms) :
            \A t \in 1..Len(SubAreasOf(rooms[i])) :
                \A sa \in {SubAreasOf(rooms[i])[t]} :
                    \A a \in 1..Len(IncomingSubItems(sa)) :
                        Reachable(SubName(sa), IncomingSubItems(sa)[a])

HasDimensions(f) == FeatureDims(f) \notin {<<>>, none}
HasActionText(f) ==
    ~IsNull(GetN(f, "action_description")) /\ FeatureAction(f) # <<>>

\* C24: feature merging only fills missing fields: when a duplicate room is
\* merged, a room-level feature that had a non-empty dimensions_raw keeps
\* it, and one that had a non-empty action_description keeps it, whether
\* an incoming feature or an 'opens into' fragment was folded into it.
C24_FeatureMergeOnlyFills ==
    [][\A k \in 1..Len(unique_rooms) :
         \A t \in 1..Len(FeaturesOf(unique_rooms[k].room)) :
           \A old \in {FeaturesOf(unique_rooms[k].room)[t]} :
             \A new \in {FeaturesOf(unique_rooms'[k].room)[t]} :
               /\ HasDimensions(old) =>
                     GetN(new, "dimensions_raw") = GetN(old, "dimensions_raw")
               /\ HasActionText(old) =>
                     GetN(new, "action_description") =
                         GetN(old, "action_description")]_vars

DimsOf(room) == GetN(room, "dimensions")

\* what the merge of a duplicate room leaves of the steps after dimensions
WithoutDims(room) == [f \in DOMAIN room.m \ {"dimensions"} |-> room.m[f]]

\* C25: the dimensions step of a room merge never overwrites a present
\* value and never stops the merge: an existing room without dimensions
\* adopts the incoming value whole; when both are maps only the keys that
\* are null or absent in the existing map are filled, from non-null incoming
\* values; in every other combination the dimensions stay as they were; and
\* the rest of the merge is the one of the same rooms without dimensions.
C25_DimensionsNeverOverwritten ==
    [][(rpc = "loop" /\ room_i <= Len(rooms)) =>
         \A k \in {j \in 1..Len(unique_rooms) :
                       unique_rooms[j].key =
                           RoomKey(rooms[room_i], Len(unique_rooms))} :
           \A old \in {DimsOf(unique_rooms[k].room)} :
             \A new \in {DimsOf(unique_rooms'[k].room)} :
               \A inc \in {DimsOf(rooms[room_i])} :
                      /\ IF ~Truthy(old)
                         THEN new = IF Truthy(inc) THEN inc ELSE old
                         ELSE IF IsDict(old) /\ IsDict(inc)
                         THEN /\ IsDict(new)
                              /\ \A key \in DOMAIN old.m :
                                    ~IsNull(old.m[key]) =>
                                        /\ key \in DOMAIN new.m
                                        /\ new.m[key] = old.m[key]
                              /\ \A key \in DOMAIN new.m :
                                    \/ key \in DOMAIN old.m /\ new.m[key] = old.m[key]
                                    \/ /\ IsNull(GetN(old, key))
                                       /\ key \in DOMAIN inc.m
                                       /\ new.m[key] = inc.m[key]
                              /\ \A key \in DOMAIN inc.m :
                                    (~IsNull(inc.m[key]) /\ IsNull(GetN(old, key)))
                                        => GetN(new, key) = inc.m[key]
                         ELSE new = old
                      /\ WithoutDims(unique_rooms'[k].room) =
                            WithoutDims(MergeRoomInto(
                                [m |-> WithoutDims(unique_rooms[k].room)],
                                [m |-> WithoutDims(rooms[room_i])]))]_vars

\* a room with dimensions {floor: 10, walls: null} was merged with a room of
\* the same key with dimensions {floor: 12, walls: 40}: floor kept, walls filled
C25_Witness ==
    /\ rpc = "done"
    /\ Len(rooms) = 2
    /\ Len(result) = 1
    /\ DimsOf(rooms[1]) = Dict([floor |-> Num(10), walls |-> Null])
    /\ DimsOf(rooms[2]) = Dict([floor |-> Num(12), walls |-> Num(40)])
    /\ DimsOf(result[1]) = Dict([floor |-> Num(10), walls |-> Num(40)])

-----------------------------------------------------------------------------
(* Properties of the lengths of the chunks *)

\* offset of chunk k (from 1) in the text
OffsetOf(k) == (k - 1) * (text_chunk_size - text_overlap)

\* C27 as stated: every chunk other than the last has length exactly
\* chunk_size, and every chunk is non-empty.
C27_OnlyFinalChunkShort ==
    tpc = "done" =>
        \A k \in 1..Len(chunks) :
            /\ Len(chunks[k]) >= 1
            /\ k < Len(chunks) => Len(chunks[k]) = text_chunk_size

\* C27: only chunks that run to the end of the text can be shorter than
\* chunk_size: a chunk whose window lies within the text has length exactly
\* chunk_size, every other chunk is the rest of the text from its offset
\* (with an overlap there can be several of them), and every chunk is
\* non-empty.
C27_ShortChunksRunToTheEnd ==
    \A k \in 1..Len(chunks) :
        /\ Len(chunks[k]) >= 1
        /\ IF OffsetOf(k) + text_chunk_size <= Len(full_text)
           THEN Len(chunks[k]) = text_chunk_size
           ELSE chunks[k] = SubSeq(full_text, OffsetOf(k) + 1, Len(full_text))

\* five characters in windows of four with overlap two: chunks of length
\* four, three and one
C27_Witness ==
    /\ tpc = "done"
    /\ Len(full_text) = 5
    /\ text_chunk_size = 4
    /\ text_overlap = 2
    /\ Len(chunks) = 3
    /\ Len(chunks[2]) = 3
    /\ Len(chunks[3]) = 1

-----------------------------------------------------------------------------
(* Properties of the oracle calls of one chunk *)

\* C26: a failed chunk is never retried: the oracle is invoked at most once
\* for each chunk, so no chunk is ever in a second invocation, and a chunk
\* that has raised is finished.
C26_OracleInvokedOnce ==
    \A i \in Chunks :
        /\ fstate[i] # "CALL2"
        /\ fexc[i] => fstate[i] = "FINISHED"

-----------------------------------------------------------------------------
(* Properties of the place of unwrapping in the chunked path *)

\* the rooms of the document structure_and_validate_content returns
ReturnedRooms == Get(structured_data, "rooms", EmptyList)

\* C29: every chunk's parsed document is unwrapped before it is merged: when
\* a chunk's response carries its rooms list as a JSON string, the document
\* returned for the chunked text holds the room of that list.
C29_StringifiedRoomsContribute ==
    (ppc = "post" /\ mainpc = "done" /\ response_content = StringifiedRooms) =>
        /\ IsList(ReturnedRooms)
        /\ \E k \in 1..Len(ReturnedRooms.l) :
               GetN(ReturnedRooms.l[k], "name") = S(<<"a">>)

-----------------------------------------------------------------------------
(* structure_and_validate_content on a text of at most chunk_threshold
   characters: one oracle call, the parser, post-processing *)

\* the else branch is entered: prompts are built and _call_openai issues
\* its first create(...)
InitSingle ==
    /\ ppc = "call1"
    /\ mainpc = "single"
    /\ response_content = <<>>
    /\ is_truncated = FALSE
    /\ chunk_number = 1
    /\ fix_calls = <<>>
    /\ parsed = NoneSlot
    /\ structured_data = NoneSlot
    /\ rules \in RuleLists
    /\ total_chunks = MinChunks
    /\ submitted = 0
    /\ fstate = [i \in Chunks |-> "UNSUBMITTED"]
    /\ fexc = [i \in Chunks |-> FALSE]
    /\ yielded = {}
    /\ chunk_results = [i \in Chunks |-> NoneSlot]
    /\ merge_i = 1
    /\ master_json = MasterInit
    /\ total_flags = 0
    /\ total_rules_checked = 0
    /\ rooms = <<>>
    /\ room_i = 1
    /\ unique_rooms = <<>>
    /\ result = <<>>
    /\ rpc = "idle"
    /\ TextIdle

\* except Exception as e: logger.error(...); raise
\* (ppc stays at the statement that raised)
Reraise ==
    /\ mainpc = "single"
    /\ mainpc' = "raised"
    /\ UNCHANGED <<parseVars, textVars, total_chunks, rules, dispatchVars,
                   mergeVars, roomVars>>

\* the first create(...) raises: the except branch calls create again
SingleCall1Raise ==
    /\ mainpc = "single"
    /\ ppc = "call1"
    /\ ppc' = "call2"
    /\ UNCHANGED <<response_content, is_truncated, chunk_number, fix_calls,
                   parsed, structured_data, textVars, total_chunks, rules,
                   dispatchVars, mainpc, mergeVars, roomVars>>

\* the second create(...) raises (oracle error, timeout)
SingleCall2Raise ==
    /\ ppc = "call2"
    /\ Reraise

\* create(...) returns a response without content: .content.strip() raises
SingleContentRaise ==
    /\ ppc \in {"call1", "call2"}
    /\ Reraise

\* create(...) returns: _call_openai returns (response_content, is_truncated)
SingleCallReturn ==
    /\ mainpc = "single"
    /\ ppc \in {"call1", "call2"}
    /\ response_content' \in ResponsePool
    /\ is_truncated' \in BOOLEAN
    /\ ppc' = "direct"
    /\ UNCHANGED <<chunk_number, fix_calls, parsed, structured_data, textVars,
                   total_chunks, rules, dispatchVars, mainpc, mergeVars,
                   roomVars>>

\* return structured_data
SingleReturn ==
    /\ mainpc = "single"
    /\ ppc = "post"
    /\ mainpc' = "done"
    /\ UNCHANGED <<parseVars, textVars, total_chunks, rules, dispatchVars,
                   mergeVars, roomVars>>

NextSingle ==
    \/ SingleCall1Raise
    \/ SingleCall2Raise
    \/ SingleContentRaise
    \/ SingleCallReturn
    \/ TryDirect
    \/ TryFenced
    \/ TryBoundaries
    \/ TryCleaned
    \/ ReturnFallback
    \/ PostProcess
    \/ SingleReturn

SpecSingle == InitSingle /\ [][NextSingle]_vars

\* C30: in the single-chunk path a failure of the oracle call is isolated:
\* the call of structure_and_validate_content never ends in an exception,
\* the caller receives a document.
C30_SingleFailureIsolated == mainpc # "raised"

====
